---- MODULE Spec2Model ----
(***************************************************************************)
(* Run orchestration and real-time event bridge of the gateway.            *)
(*                                                                         *)
(*   POST /run-agent   routes/run-agent.ts  (Submit, three steps: the      *)
(*                     synchronous prefix up to the durable-store write,   *)
(*                     the part between the two awaits, the response)      *)
(*   RedisBridge       redis-bridge.ts      (start, handleEventMessage,    *)
(*                     handleStatusMessage)                                *)
(*   runStore          run-store.ts         (modelled from its contract)   *)
(*   ContractSafeBroadcaster socket-broadcaster.ts (from its contract)     *)
(*                                                                         *)
(* The worker and the remote agent are the publishers of the pub/sub       *)
(* layer: for every job in the queue they may publish any status message   *)
(* and any event frame carrying that job's run_id, as well as broken       *)
(* messages.                                                               *)
(***************************************************************************)
EXTENDS Integers, Sequences, FiniteSets, TLC

VARIABLES
  runStore,     \* [byFingerprint, byRunId]: the process-local registry
  uuidCount,    \* number of run ids generated by randomUUID so far
  req,          \* the Submit-run requests: position in the handler, response
  dbRows,       \* run ids with a row in the runs table
  jobs,         \* the agent-runs queue: per job id, the job's data
  enqueued,     \* per run id, the number of enqueueAgentRun calls made for it
  running,      \* RedisBridge.running
  alive,        \* FALSE once an exception escaped a subscriber listener
  pubsub,       \* messages published and not yet delivered to the bridge
  published,    \* number of messages published so far
  lastMsg,      \* the message the listener that has just returned was given
  calls,        \* the broadcaster calls that listener made
  faulted,      \* the broadcaster or the store threw inside a listener before
  dropped,      \* the event listener discarded a message before
  rejected,     \* the broadcaster dropped a payload that failed its schema before
  roomLog,      \* per room: the events delivered to its subscribers
  worker,       \* per job: the state of processAgentRun and of the job's retries
  outputs,      \* the outputs directory: per run id, its artifacts
  http,         \* the query-route request answered last, with its response
  applied,      \* a pure function, its arguments and, once it returned, its result
  subscriber,   \* RedisBridge.subscriber and the connections start has made
  dash,         \* the dashboard's run state (RunContext reducer) and its last action
  emitted       \* the payloads delivered to rooms, in the order of their emits

vars == <<runStore, uuidCount, req, dbRows, jobs, enqueued, running, alive, pubsub,
          published, lastMsg, calls, faulted, dropped, rejected, roomLog, worker, outputs,
          http, applied, subscriber, dash, emitted>>

----------------------------------------------------------------------------
\* Bounds

MaxReq == 3      \* Submit-run requests
MaxPub == 2      \* messages published on the pub/sub layer

ReqIds == 1..MaxReq

\* `run_${randomUUID().replace(/-/g, "").slice(0, 12)}`: the k-th id generated
RunIdNames == <<"run_1", "run_2", "run_3", "run_4", "run_5", "run_6">>
RunIdOf(k) == RunIdNames[k]
RunIds == {RunIdOf(k) : k \in 1..MaxReq}

None == "undefined"                  \* undefined, where a string is expected
Undefined == [undefined |-> TRUE]    \* undefined, where an object is expected
IsDefined(v) == "undefined" \notin DOMAIN v
Missing == "missing"
NoResponse == 0

EmptyMap == [x \in {} |-> None]

Put(f, k, v) == [x \in (DOMAIN f) \cup {k} |-> IF x = k THEN v ELSE f[x]]
Del(f, k) == [x \in (DOMAIN f) \ {k} |-> f[x]]

----------------------------------------------------------------------------
\* Submission bodies

RepoUrl == "https://github.com/org/repo"

\* two submissions that differ in the leader only, one whose team name is all
\* punctuation, one without repo_url
SubmissionA == [repo_url |-> RepoUrl, team_name |-> <<"a", " ", "b">>, leader_name |-> <<"B">>]
SubmissionB == [repo_url |-> RepoUrl, team_name |-> <<"a", " ", "b">>, leader_name |-> <<"A">>]
SubmissionPunct == [repo_url |-> RepoUrl, team_name |-> <<"*", "*">>, leader_name |-> <<"B">>]
SubmissionNoRepo == [repo_url |-> Missing, team_name |-> <<"a", " ", "b">>, leader_name |-> <<"B">>]

Submissions == {SubmissionA, SubmissionB, SubmissionPunct, SubmissionNoRepo}

\* validators.runAgentRequest: the three fields are required
runAgentRequest(body) ==
  /\ body.repo_url # Missing
  /\ body.team_name # Missing
  /\ body.leader_name # Missing

\* fingerprint.ts: digest of the triple; distinct triples, distinct digests
submissionFingerprint(payload) ==
  <<"sha256", payload.repo_url, payload.team_name, payload.leader_name>>

\* branch.ts --------------------------------------------------------------
Upper(c) == CASE c = "a" -> "A" [] c = "b" -> "B" [] OTHER -> c

AllowedChar(c) == c \in {"A", "B", "a", "b", "1", "_", " "}

RECURSIVE MapUpper(_)
MapUpper(s) == IF s = <<>> THEN <<>> ELSE <<Upper(Head(s))>> \o MapUpper(Tail(s))

RECURSIVE CollapseSpaces(_)
CollapseSpaces(s) ==
  IF s = <<>> THEN <<>>
  ELSE IF Head(s) = " "
       THEN IF Len(s) > 1 /\ s[2] = " "
            THEN CollapseSpaces(Tail(s))
            ELSE <<"_">> \o CollapseSpaces(Tail(s))
       ELSE <<Head(s)>> \o CollapseSpaces(Tail(s))

\* a normalizer that strips and joins without folding the case
normalizeName_KeepsCase(s) == CollapseSpaces(SelectSeq(s, AllowedChar))

normalizeName(s) == CollapseSpaces(SelectSeq(MapUpper(s), AllowedChar))

AI_Fix == <<"_", "A", "I", "_", "F", "i", "x">>

\* [threw, value]
formatBranchName(team, leader) ==
  LET t == normalizeName(team)
      l == normalizeName(leader)
  IN  IF t = <<>> \/ l = <<>>
      THEN [threw |-> TRUE, value |-> <<>>]
      ELSE [threw |-> FALSE, value |-> t \o <<"_">> \o l \o AI_Fix]

\* validators.runAgentResponse
runAgentResponse(resp) ==
  /\ resp.status = "queued"
  /\ resp.fingerprint # Missing
  /\ resp.branch_name # <<>>

\* validators.runAgentDuplicateResponse
runAgentDuplicateResponse(dup) ==
  /\ dup.status \in {"queued", "running"}
  /\ dup.run_id # Missing

----------------------------------------------------------------------------
\* run-store.ts

getActiveByFingerprint(store, fp) ==
  IF fp \in DOMAIN store.byFingerprint THEN store.byFingerprint[fp] ELSE Undefined

getActiveByRunId(store, id) ==
  IF id \in DOMAIN store.byRunId THEN store.byRunId[id] ELSE Undefined

\* a registry whose registerQueuedRun overwrites instead of failing
registerQueuedRun_Overwrite(store, run) ==
  [threw |-> FALSE,
   store |-> [byFingerprint |-> Put(store.byFingerprint, run.fingerprint, run),
              byRunId       |-> Put(store.byRunId, run.run_id, run)]]

\* [threw, store]: fails when the fingerprint is already active
registerQueuedRun(store, run) ==
  IF run.fingerprint \in DOMAIN store.byFingerprint
  THEN [threw |-> TRUE, store |-> store]
  ELSE [threw |-> FALSE,
        store |-> [byFingerprint |-> Put(store.byFingerprint, run.fingerprint, run),
                   byRunId       |-> Put(store.byRunId, run.run_id, run)]]

\* a registry whose markRunning updates the entry of the run-id lookup only
markRunning_ByIdOnly(store, id) ==
  IF id \notin DOMAIN store.byRunId THEN store
  ELSE [byFingerprint |-> store.byFingerprint,
        byRunId       |-> Put(store.byRunId, id,
                              [store.byRunId[id] EXCEPT !.status = "running"])]

\* a registry whose markRunning creates the entry it does not find
markRunning_Upsert(store, id) ==
  LET run == IF id \in DOMAIN store.byRunId
             THEN [store.byRunId[id] EXCEPT !.status = "running"]
             ELSE [run_id |-> id, status |-> "running", fingerprint |-> <<"unknown", id>>]
  IN  [byFingerprint |-> Put(store.byFingerprint, run.fingerprint, run),
       byRunId       |-> Put(store.byRunId, id, run)]

markRunning(store, id) ==
  IF id \notin DOMAIN store.byRunId THEN store
  ELSE LET run == [store.byRunId[id] EXCEPT !.status = "running"]
       IN  [byFingerprint |-> Put(store.byFingerprint, run.fingerprint, run),
            byRunId       |-> Put(store.byRunId, id, run)]

\* a registry whose markComplete keeps the run's record and frees its
\* fingerprint only
markComplete_KeepsRecord(store, id) ==
  IF id \notin DOMAIN store.byRunId THEN store
  ELSE [byFingerprint |-> Del(store.byFingerprint, store.byRunId[id].fingerprint),
        byRunId       |-> store.byRunId]

markComplete(store, id) ==
  IF id \notin DOMAIN store.byRunId THEN store
  ELSE [byFingerprint |-> Del(store.byFingerprint, store.byRunId[id].fingerprint),
        byRunId       |-> Del(store.byRunId, id)]

toDuplicateResponse(run) ==
  [run_id |-> run.run_id, status |-> run.status,
   message |-> "Active run already exists for this submission fingerprint"]

----------------------------------------------------------------------------
\* Pub/sub messages

STATUS_CHANNEL == <<"run", "status">>

EventTypes == {"thought_event", "fix_applied", "ci_update", "telemetry_tick", "run_complete"}

EventChannel(t) == <<"run", "event", t>>

\* the channels matched by the pattern run:event:* that the publishers use
EventChannels == {EventChannel(t) : t \in EventTypes \cup {"unknown_thing"}}

\* a terminal list that also holds 'queued'
terminalStates_WithQueued == {"passed", "failed", "quarantined", "queued"}

terminalStates == {"passed", "failed", "quarantined"}

\* A raw message is the text of a frame: text that is not JSON, the JSON
\* literal null, or a JSON object.  An event object carries run_id (or lacks
\* it) and has the shape of one variant's schema (or of none).
Garbage == [kind |-> "garbage"]
JsonNull == [kind |-> "null"]
EventObject(rid, shape) == [kind |-> "object", run_id |-> rid, shape |-> shape]
StatusObject(rid, status) == [kind |-> "object", run_id |-> rid, status |-> status]

\* JSON.parse: [threw, value]
NullValue == [json_null |-> TRUE]
IsNull(v) == "json_null" \in DOMAIN v

JSONparse(raw) ==
  CASE raw.kind = "garbage" -> [threw |-> TRUE, value |-> NullValue]
    [] raw.kind = "null"    -> [threw |-> FALSE, value |-> NullValue]
    [] OTHER                -> [threw |-> FALSE,
                                value |-> [f \in (DOMAIN raw) \ {"kind"} |-> raw[f]]]

\* a field of a parsed value; undefined when the object lacks it
Field(obj, f) == IF f \in DOMAIN obj /\ obj[f] # Missing THEN obj[f] ELSE None

Truthy(v) == v # None /\ v # ""

Room(runId) == <<"/run", runId>>

----------------------------------------------------------------------------
\* validators.ts: one compiled schema per event variant

\* a validator that checks run_id and lets any other field through
ValidatorOf_RunIdOnly(eventType, payload) ==
  /\ ~IsNull(payload)
  /\ Field(payload, "run_id") \in RunIds

ValidatorOf(eventType, payload) ==
  /\ ~IsNull(payload)
  /\ Field(payload, "run_id") \in RunIds
  /\ Field(payload, "shape") = eventType

\* socket-broadcaster.ts: validate, then deliver to the room; an invalid
\* payload is dropped.  fault: the broadcaster throws.
\* [threw, delivered]
emit(eventType, room, payload, fault) ==
  IF fault THEN [threw |-> TRUE, delivered |-> <<>>]
  ELSE IF ValidatorOf(eventType, payload)
       THEN [threw |-> FALSE, delivered |-> <<[room |-> room, event |-> eventType]>>]
       ELSE [threw |-> FALSE, delivered |-> <<>>]

\* a switch whose ci_update case calls the telemetry emitter
EmitOp_WrongCase(eventType) ==
  CASE eventType = "thought_event"  -> "emitThought"
    [] eventType = "fix_applied"    -> "emitFixApplied"
    [] eventType = "ci_update"      -> "emitTelemetryTick"
    [] eventType = "telemetry_tick" -> "emitTelemetryTick"
    [] eventType = "run_complete"   -> "emitRunComplete"

\* the switch of handleEventMessage: the broadcaster method of each type
EmitOp(eventType) ==
  CASE eventType = "thought_event"  -> "emitThought"
    [] eventType = "fix_applied"    -> "emitFixApplied"
    [] eventType = "ci_update"      -> "emitCiUpdate"
    [] eventType = "telemetry_tick" -> "emitTelemetryTick"
    [] eventType = "run_complete"   -> "emitRunComplete"

----------------------------------------------------------------------------
\* redis-bridge.ts

Last(s) == s[Len(s)]

\* an extractEventType that takes an unknown segment for a thought event
extractEventType_Default(channel) ==
  LET last == IF channel = <<>> THEN "" ELSE Last(channel)
  IN  IF last \in EventTypes THEN last ELSE "thought_event"

extractEventType(channel) ==
  LET last == IF channel = <<>> THEN "" ELSE Last(channel)
  IN  IF last \in EventTypes THEN last ELSE None

\* the result of a listener: the broadcaster calls made, the store, what
\* reached the subscribers, whether an exception left the function
Result(cs, store, delivered, threw) ==
  [calls |-> cs, store |-> store, delivered |-> delivered, threw |-> threw]

\* the body of the try block of handleEventMessage
handleEventBody(store, channel, raw, fault) ==
  LET eventType == extractEventType(channel) IN
  IF eventType = None THEN Result(<<>>, store, <<>>, FALSE)
  ELSE
    LET parsed == JSONparse(raw) IN
    IF parsed.threw THEN Result(<<>>, store, <<>>, TRUE)
    ELSE
      LET payload == parsed.value
          runId == Field(payload, "run_id")     \* payload?.run_id
      IN
      IF ~Truthy(runId) THEN Result(<<>>, store, <<>>, FALSE)
      ELSE
        LET room == Room(runId)
            call == [op |-> EmitOp(eventType), room |-> room, payload |-> payload]
            em == emit(eventType, room, payload, fault)
        IN
        IF em.threw THEN Result(<<call>>, store, <<>>, TRUE)
        ELSE IF eventType = "run_complete"
             THEN Result(<<call>>, markComplete(store, runId), em.delivered, FALSE)
             ELSE Result(<<call>>, store, em.delivered, FALSE)

\* try { ... } catch (err) { console.error(...) }
Catch(result) == [result EXCEPT !.threw = FALSE]

\* handleEventMessage without its try/catch
handleEventMessage_NoCatch(store, channel, raw, fault) ==
  handleEventBody(store, channel, raw, fault)

handleEventMessage(store, channel, raw, fault) ==
  Catch(handleEventBody(store, channel, raw, fault))

\* the body of the try block of handleStatusMessage; fault: the store throws
handleStatusBody(store, raw, fault) ==
  LET parsed == JSONparse(raw) IN
  IF parsed.threw \/ IsNull(parsed.value) THEN Result(<<>>, store, <<>>, TRUE)
  ELSE
    LET data == parsed.value
        run_id == Field(data, "run_id")
        status == Field(data, "status")
    IN
    IF ~Truthy(run_id) \/ ~Truthy(status) THEN Result(<<>>, store, <<>>, FALSE)
    ELSE IF status = "running"
         THEN IF fault THEN Result(<<>>, store, <<>>, TRUE)
              ELSE Result(<<>>, markRunning(store, run_id), <<>>, FALSE)
         ELSE IF status \in terminalStates
              THEN IF fault THEN Result(<<>>, store, <<>>, TRUE)
                   ELSE Result(<<>>, markComplete(store, run_id), <<>>, FALSE)
              ELSE Result(<<>>, store, <<>>, FALSE)

handleStatusMessage(store, raw, fault) == Catch(handleStatusBody(store, raw, fault))

----------------------------------------------------------------------------
\* queue.ts

\* the job data built by the handler (the fields the model reads)
AgentRunJobData(response) == [run_id |-> response.run_id]

\* the id the queue gives a job added without a jobId option
AutoJobIds == <<"1", "2", "3", "4", "5", "6">>

\* Queue.add(name, data, {jobId}): a job whose id is in the queue already is
\* not added again; without jobId the queue numbers the job
queueAdd(queue, jobId, data) ==
  IF jobId = None
  THEN Put(queue, AutoJobIds[Cardinality(DOMAIN queue) + 1], data)
  ELSE IF jobId \in DOMAIN queue THEN queue ELSE Put(queue, jobId, data)

\* an enqueue that passes no jobId
jobId_Auto(data) == None

\* jobId: data.run_id
jobId(data) == data.run_id

enqueueAgentRun(queue, data) == queueAdd(queue, jobId(data), data)

QueuedRunIds == {jobs[j].run_id : j \in DOMAIN jobs}

\* one more call counted for run id R
Counted(count, R) == Put(count, R, IF R \in DOMAIN count THEN count[R] + 1 ELSE 1)

----------------------------------------------------------------------------
\* routes/run-agent.ts

buildErrorEnvelope(code, message) == [error |-> [code |-> code, message |-> message]]

\* a request: where its handler stands, the response object it built (once it
\* found no active run), its answer, and the requests of the same fingerprint
\* that were suspended at their durable-store write when it arrived
Idle == [pc |-> "idle", body |-> Undefined, response |-> Undefined,
         status |-> NoResponse, reply |-> Undefined, raced |-> {}]

\* a handler that sends its error response without returning and goes on to
\* the durable-store write with a response for the same submission
Answered_FallsThrough(body, status, reply) ==
  [pc |-> "db", body |-> body,
   response |-> [run_id |-> RunIdOf(MaxReq), branch_name |-> <<>>, status |-> "queued",
                 socket_room |-> Room(RunIdOf(MaxReq)),
                 fingerprint |-> submissionFingerprint(body)],
   status |-> status, reply |-> reply, raced |-> {}]

Answered(body, status, reply) ==
  [pc |-> "done", body |-> body, response |-> Undefined,
   status |-> status, reply |-> reply, raced |-> {}]

\* validateBody("runAgentRequest") and the handler up to `await pool.query`:
\* the request's next record and the count of generated ids
SubmitSync(store, body, count) ==
  IF ~runAgentRequest(body)
  THEN [req |-> Answered(body, 400,
                  buildErrorEnvelope("INVALID_INPUT", "Request payload validation failed")),
        count |-> count]
  ELSE
    LET fingerprint == submissionFingerprint(body)
        existing == getActiveByFingerprint(store, fingerprint)
    IN
    IF IsDefined(existing)
    THEN LET duplicateResponse == toDuplicateResponse(existing) IN
         IF ~runAgentDuplicateResponse(duplicateResponse)
         THEN [req |-> Answered(body, 500,
                         buildErrorEnvelope("INTERNAL_CONTRACT_ERROR",
                                            "Generated duplicate response violates contract")),
               count |-> count]
         ELSE [req |-> Answered(body, 409, duplicateResponse), count |-> count]
    ELSE
      LET branch == formatBranchName(body.team_name, body.leader_name) IN
      IF branch.threw
      THEN [req |-> Answered(body, 400,
                      buildErrorEnvelope("INVALID_INPUT", "Unable to compute valid branch name")),
            count |-> count]
      ELSE
        LET runId == RunIdOf(count + 1)
            response == [run_id |-> runId, branch_name |-> branch.value,
                         status |-> "queued", socket_room |-> Room(runId),
                         fingerprint |-> fingerprint]
        IN
        IF ~runAgentResponse(response)
        THEN [req |-> Answered(body, 500,
                        buildErrorEnvelope("INTERNAL_CONTRACT_ERROR",
                                           "Generated response violates contract")),
              count |-> count + 1]
        ELSE [req |-> [pc |-> "db", body |-> body, response |-> response,
                       status |-> NoResponse, reply |-> Undefined, raced |-> {}],
              count |-> count + 1]

\* the requests suspended at `await pool.query` for the fingerprint of body
SuspendedAtDb(body) ==
  {q \in ReqIds : /\ req[q].pc = "db"
                  /\ req[q].response.fingerprint = submissionFingerprint(body)}

\* no listener has just returned
NoListener ==
  /\ lastMsg' = Undefined
  /\ calls' = <<>>

\* A request arrives; requests are numbered in the order of their arrival.
SubmitBegin(r, body) ==
  /\ req[r].pc = "idle"
  /\ IF r = 1 THEN TRUE ELSE req[r - 1].pc # "idle"
  /\ LET out == SubmitSync(runStore, body, uuidCount) IN
     /\ req' = [req EXCEPT ![r] = IF out.req.pc = "db"
                                  THEN [out.req EXCEPT !.raced = SuspendedAtDb(body)]
                                  ELSE out.req]
     /\ uuidCount' = out.count
  /\ NoListener
  /\ UNCHANGED <<runStore, dbRows, jobs, enqueued, running, alive, pubsub, published,
                 faulted, dropped, rejected, roomLog, worker, outputs, http, applied, subscriber, dash, emitted>>

\* The durable-store write has settled (dbOk: the row was inserted); the
\* handler registers the run and calls enqueueAgentRun (enqOk: queue.add adds
\* the job, whose id is the run id).  A throw of registerQueuedRun leaves the
\* async handler as a rejection: the request gets no 202 and no 409.
SubmitAfterDb(r, dbOk, enqOk) ==
  /\ req[r].pc = "db"
  /\ LET response == req[r].response
         reg == registerQueuedRun(runStore, response)
     IN
     /\ dbRows' = IF dbOk THEN dbRows \cup {response.run_id} ELSE dbRows
     /\ runStore' = reg.store
     /\ IF reg.threw
        THEN /\ req' = [req EXCEPT ![r].pc = "done"]
             /\ jobs' = jobs
             /\ enqueued' = enqueued
        ELSE /\ req' = [req EXCEPT ![r].pc = "enqueue"]
             /\ jobs' = IF enqOk THEN enqueueAgentRun(jobs, AgentRunJobData(response))
                                  ELSE jobs
             /\ enqueued' = Counted(enqueued, response.run_id)
  /\ NoListener
  /\ UNCHANGED <<uuidCount, running, alive, pubsub, published, faulted, dropped, rejected, roomLog, worker, outputs, http, applied, subscriber, dash, emitted>>

\* enqueueAgentRun has settled either way: res.status(202).json(response)
SubmitRespond(r) ==
  /\ req[r].pc = "enqueue"
  /\ req' = [req EXCEPT ![r].pc = "done", ![r].status = 202, ![r].reply = req[r].response]
  /\ NoListener
  /\ UNCHANGED <<runStore, uuidCount, dbRows, jobs, enqueued, running, alive, pubsub,
                 published, faulted, dropped, rejected, roomLog, worker, outputs, http, applied, subscriber, dash, emitted>>

----------------------------------------------------------------------------
\* RedisBridge.start, the publishers, and the two subscriber listeners

\* subscriber: set, whether this.subscriber holds a connection; connected,
\* whether that connection is connected and carries the two listeners;
\* created, the connections made so far; live, the connected ones that carry
\* listeners; last and threw, the call of start or close made last and
\* whether it threw
NoSubscriber ==
  [set |-> FALSE, connected |-> FALSE, created |-> 0, live |-> 0,
   last |-> "none", threw |-> FALSE]

\* new IORedis(...); connect(); on("pmessage"); on("message"); psubscribe;
\* subscribe.  connectOk: connect() resolves
Connect(sub, connectOk) ==
  [set |-> TRUE, connected |-> connectOk, created |-> sub.created + 1,
   live |-> IF connectOk THEN sub.live + 1 ELSE sub.live,
   last |-> "start", threw |-> ~connectOk]

\* a start without `if (this.running) return`
start_NoGuard(run, sub, connectOk) ==
  [running |-> TRUE, subscriber |-> Connect(sub, connectOk)]

\* RedisBridge.start: [running, subscriber]
start(run, sub, connectOk) ==
  IF run
  THEN [running |-> run, subscriber |-> [sub EXCEPT !.last = "start again", !.threw = FALSE]]
  ELSE [running |-> TRUE, subscriber |-> Connect(sub, connectOk)]

\* RedisBridge.close: a no-op without a subscriber; otherwise unsubscribes
\* (best effort), quits or disconnects, and forgets the connection
close(run, sub) ==
  IF ~sub.set
  THEN [running |-> run, subscriber |-> [sub EXCEPT !.last = "close, no subscriber",
                                                   !.threw = FALSE]]
  ELSE [running |-> FALSE,
        subscriber |-> [sub EXCEPT !.set = FALSE, !.connected = FALSE,
                                   !.live = IF sub.connected THEN @ - 1 ELSE @,
                                   !.last = "close", !.threw = FALSE]]

\* the bridge after its start at the launch of the gateway
Started == start(FALSE, NoSubscriber, TRUE).subscriber

BridgeStart ==
  /\ ~running
  /\ running' = start(running, subscriber, TRUE).running
  /\ subscriber' = start(running, subscriber, TRUE).subscriber
  /\ NoListener
  /\ UNCHANGED <<runStore, uuidCount, req, dbRows, jobs, enqueued, alive, pubsub, published,
                 faulted, dropped, rejected, roomLog, worker, outputs, http, applied, dash, emitted>>

\* the frames the worker and the agent may put on the channel of type t
EventFrames(t) ==
  {Garbage, EventObject(Missing, t)}
    \cup {EventObject(id, shape) : id \in QueuedRunIds, shape \in {t, "other"}}

StatusFrames ==
  {Garbage, JsonNull, StatusObject(Missing, "running")}
    \cup {StatusObject(id, st) : id \in QueuedRunIds,
                                 st \in {"running", "queued", Missing} \cup terminalStates}

\* redis.publish: a message published while nobody is subscribed is lost
Publish(channel, raw) ==
  /\ published < MaxPub
  /\ published' = published + 1
  /\ pubsub' = IF running THEN Append(pubsub, [channel |-> channel, raw |-> raw]) ELSE pubsub
  /\ NoListener
  /\ UNCHANGED <<runStore, uuidCount, req, dbRows, jobs, enqueued, running, alive,
                 faulted, dropped, rejected, roomLog, worker, outputs, http, applied, subscriber, dash, emitted>>

PublishEvent == \E t \in EventTypes \cup {"unknown_thing"} :
                  \E raw \in EventFrames(t) : Publish(EventChannel(t), raw)

PublishStatus == \E raw \in StatusFrames : Publish(STATUS_CHANNEL, raw)

\* the messages that move a run through its lifecycle: the worker's status
\* updates and the agent's run_complete frame
LifecycleMessages ==
  {[channel |-> STATUS_CHANNEL, raw |-> StatusObject(id, st)] :
       id \in QueuedRunIds, st \in {"running", "passed"}}
    \cup {[channel |-> EventChannel("run_complete"),
           raw |-> EventObject(id, "run_complete")] : id \in QueuedRunIds}

PublishLifecycle == \E m \in LifecycleMessages : Publish(m.channel, m.raw)

\* messages of one channel are delivered in the order of their publication;
\* there is no order between channels
Deliverable(i) ==
  /\ i \in 1..Len(pubsub)
  /\ \A j \in 1..(i - 1) : pubsub[j].channel # pubsub[i].channel

RemoveAt(s, i) == SubSeq(s, 1, i - 1) \o SubSeq(s, i + 1, Len(s))

RoomEvents(log, room) == IF room \in DOMAIN log THEN log[room] ELSE <<>>

RECURSIVE Deliver(_, _)
Deliver(log, delivered) ==
  IF delivered = <<>> THEN log
  ELSE LET d == Head(delivered)
       IN  Deliver(Put(log, d.room, Append(RoomEvents(log, d.room), d.event)), Tail(delivered))

\* the effect of one listener invocation on the gateway; an exception that
\* leaves the listener is uncaught and ends the process.  body: what the try
\* block did; clean: what it does when nothing it calls throws
Handled(i, fault, body, clean, result) ==
  /\ runStore' = result.store
  /\ calls' = result.calls
  /\ roomLog' = Deliver(roomLog, result.delivered)
  /\ alive' = ~result.threw
  /\ faulted' = (faulted \/ (body.threw /\ ~clean.threw))
  /\ dropped' = (dropped \/ (pubsub[i].channel # STATUS_CHANNEL /\ body.calls = <<>>))
  /\ rejected' = (rejected \/ (body.calls # <<>> /\ ~body.threw /\ body.delivered = <<>>))
  /\ lastMsg' = [channel |-> pubsub[i].channel, raw |-> pubsub[i].raw,
                 fault |-> fault, before |-> runStore, log |-> roomLog]
  /\ pubsub' = RemoveAt(pubsub, i)
  /\ UNCHANGED <<uuidCount, req, dbRows, jobs, enqueued, running, published, worker, outputs,
                 http, applied, subscriber, dash>>

\* subscriber.on("pmessage", ...)
OnPMessage(i, fault) ==
  /\ running /\ alive
  /\ Deliverable(i)
  /\ pubsub[i].channel # STATUS_CHANNEL
  /\ Handled(i, fault,
             handleEventBody(runStore, pubsub[i].channel, pubsub[i].raw, fault),
             handleEventBody(runStore, pubsub[i].channel, pubsub[i].raw, FALSE),
             handleEventMessage(runStore, pubsub[i].channel, pubsub[i].raw, fault))
  /\ emitted' = emitted

\* subscriber.on("message", ...)
OnMessage(i, fault) ==
  /\ running /\ alive
  /\ Deliverable(i)
  /\ pubsub[i].channel = STATUS_CHANNEL
  /\ Handled(i, fault,
             handleStatusBody(runStore, pubsub[i].raw, fault),
             handleStatusBody(runStore, pubsub[i].raw, FALSE),
             handleStatusMessage(runStore, pubsub[i].raw, fault))
  /\ emitted' = emitted

----------------------------------------------------------------------------
\* Spec: the gateway from its start, with the Submit-run requests and the
\* messages that move runs through their lifecycle.

Init ==
  /\ runStore = [byFingerprint |-> EmptyMap, byRunId |-> EmptyMap]
  /\ uuidCount = 0
  /\ req = [r \in ReqIds |-> Idle]
  /\ dbRows = {}
  /\ jobs = EmptyMap
  /\ enqueued = EmptyMap
  /\ running = FALSE
  /\ alive = TRUE
  /\ pubsub = <<>>
  /\ published = 0
  /\ lastMsg = Undefined
  /\ calls = <<>>
  /\ faulted = FALSE
  /\ dropped = FALSE
  /\ rejected = FALSE
  /\ roomLog = EmptyMap
  /\ worker = EmptyMap
  /\ outputs = EmptyMap
  /\ http = Undefined
  /\ applied = Undefined
  /\ subscriber = NoSubscriber
  /\ emitted = <<>>
  /\ dash = Undefined

Next ==
  \/ \E r \in ReqIds, body \in Submissions : SubmitBegin(r, body)
  \/ \E r \in ReqIds, dbOk \in BOOLEAN, enqOk \in BOOLEAN : SubmitAfterDb(r, dbOk, enqOk)
  \/ \E r \in ReqIds : SubmitRespond(r)
  \/ BridgeStart
  \/ PublishLifecycle
  \/ \E i \in 1..MaxPub, fault \in BOOLEAN : OnPMessage(i, fault)
  \/ \E i \in 1..MaxPub, fault \in BOOLEAN : OnMessage(i, fault)

Spec == Init /\ [][Next]_vars

----------------------------------------------------------------------------
\* BridgeSpec: the bridge at work.  The gateway has accepted SubmissionA and
\* SubmissionB, both runs are queued and their jobs are in the queue; the
\* worker and the agent publish any frame.

AcceptedRun(body, k) == SubmitSync([byFingerprint |-> EmptyMap, byRunId |-> EmptyMap],
                                   body, k - 1).req.response

Accepted(body, k) ==
  [pc |-> "done", body |-> body, response |-> AcceptedRun(body, k),
   status |-> 202, reply |-> AcceptedRun(body, k), raced |-> {}]

TwoRunsQueued ==
  /\ runStore = registerQueuedRun(
                   registerQueuedRun([byFingerprint |-> EmptyMap, byRunId |-> EmptyMap],
                                     AcceptedRun(SubmissionA, 1)).store,
                   AcceptedRun(SubmissionB, 2)).store
  /\ uuidCount = 2
  /\ req = [r \in ReqIds |-> IF r = 1 THEN Accepted(SubmissionA, 1)
                              ELSE IF r = 2 THEN Accepted(SubmissionB, 2) ELSE Idle]
  /\ dbRows = {RunIdOf(1), RunIdOf(2)}
  /\ jobs = enqueueAgentRun(enqueueAgentRun(EmptyMap,
                                             AgentRunJobData(AcceptedRun(SubmissionA, 1))),
                             AgentRunJobData(AcceptedRun(SubmissionB, 2)))
  /\ enqueued = Counted(Counted(EmptyMap, RunIdOf(1)), RunIdOf(2))
  /\ alive = TRUE
  /\ pubsub = <<>>
  /\ published = 0
  /\ lastMsg = Undefined
  /\ calls = <<>>
  /\ faulted = FALSE
  /\ dropped = FALSE
  /\ rejected = FALSE
  /\ roomLog = EmptyMap
  /\ outputs = EmptyMap
  /\ http = Undefined
  /\ applied = Undefined

TwoRunsAccepted ==
  /\ TwoRunsQueued
  /\ running = TRUE
  /\ subscriber = Started
  /\ emitted = <<>>
  /\ dash = Undefined

BridgeInit ==
  /\ TwoRunsAccepted
  /\ worker = EmptyMap

BridgeNext ==
  \/ PublishEvent
  \/ PublishStatus
  \/ \E i \in 1..MaxPub, fault \in BOOLEAN : OnPMessage(i, fault)
  \/ \E i \in 1..MaxPub, fault \in BOOLEAN : OnMessage(i, fault)

BridgeSpec == BridgeInit /\ [][BridgeNext]_vars

----------------------------------------------------------------------------
\* Properties

ActiveIds == DOMAIN runStore.byRunId

\* request r built a response object: it found no active run for its triple
BuiltResponse(r) == IsDefined(req[r].response)

\* run id R was registered by its request
WasRegistered(R) ==
  \E r \in ReqIds : /\ BuiltResponse(r)
                    /\ req[r].response.run_id = R
                    /\ req[r].pc = "enqueue" \/ req[r].status = 202

\* C1: in every reachable state the Run Store holds at most one active
\* (queued or running) run per fingerprint.
C1_OneActivePerFingerprint ==
  /\ \A a, b \in ActiveIds :
        runStore.byRunId[a].fingerprint = runStore.byRunId[b].fingerprint => a = b
  /\ \A a \in ActiveIds : runStore.byRunId[a].status \in {"queued", "running"}

\* two requests of one fingerprint were in flight at once, one of them
\* registered its run and the other has finished
C1_Witness ==
  \E r \in ReqIds :
    /\ req[r].pc = "done"
    /\ req[r].raced # {}
    /\ IsDefined(getActiveByFingerprint(runStore, req[r].response.fingerprint))

\* C2: for a fixed triple, a Submit that arrives while the run of an accepted
\* Submit is active is answered 409 with that run's id; the next Submit after
\* markComplete of that run is answered 202 with a different run_id.
C2_DuplicateThenNewRun ==
  \A r \in ReqIds :
    req[r].pc = "done" =>
      /\ req[r].status = 409 =>
           \E q \in ReqIds : /\ q # r
                             /\ BuiltResponse(q)
                             /\ req[q].body = req[r].body
                             /\ req[q].response.run_id = req[r].reply.run_id
      /\ \A q \in 1..(r - 1) :
           ( /\ BuiltResponse(r)
             /\ req[r].raced = {}
             /\ req[q].body = req[r].body
             /\ req[q].status = 202 )
           => /\ req[r].status = 202
              /\ req[r].reply.run_id # req[q].reply.run_id

\* C3: of two Submits of one fingerprint, the second arriving while the first
\* is suspended at its durable-store write, exactly one is answered 202 and
\* the other 409 with the run_id of the 202.
C3_RaceAnswered202And409 ==
  \A r2 \in ReqIds : \A r1 \in req[r2].raced :
    (req[r1].pc = "done" /\ req[r2].pc = "done") =>
      \E w \in {r1, r2} : \E l \in {r1, r2} \ {w} :
        /\ req[w].status = 202
        /\ req[l].status = 409
        /\ req[l].reply.run_id = req[w].reply.run_id

----------------------------------------------------------------------------

\* the listener that has just returned was given a well-formed message of
\* type t for run R on the channel of t
WellFormed(t, R) ==
  /\ IsDefined(lastMsg)
  /\ lastMsg.channel = EventChannel(t)
  /\ lastMsg.raw = EventObject(R, t)

\* the broadcaster method named after each event type
Emitter == [thought_event |-> "emitThought", fix_applied |-> "emitFixApplied",
            ci_update |-> "emitCiUpdate", telemetry_tick |-> "emitTelemetryTick",
            run_complete |-> "emitRunComplete"]

TheCall(t, R) == [op |-> Emitter[t], room |-> Room(R), payload |-> [run_id |-> R, shape |-> t]]

\* what the rooms have received since the listener was entered
ReceivedNothing == roomLog = lastMsg.log

ReceivedOnly(t, R) ==
  /\ RoomEvents(roomLog, Room(R)) = Append(RoomEvents(lastMsg.log, Room(R)), t)
  /\ \A room \in (DOMAIN roomLog) \ {Room(R)} :
        RoomEvents(roomLog, room) = RoomEvents(lastMsg.log, room)

RoutedNormally ==
  \A t \in EventTypes, R \in RunIds :
    WellFormed(t, R) =>
      /\ calls = <<TheCall(t, R)>>
      /\ IF lastMsg.fault THEN ReceivedNothing ELSE ReceivedOnly(t, R)

\* C4: one well-formed message on run:event:T with run_id R causes exactly one
\* broadcaster call, the emit operation of T for room /run/R with that
\* payload, and nothing reaches another room.
C4_OneEmitToTheRoom == RoutedNormally

C4_Witness ==
  /\ WellFormed("fix_applied", RunIdOf(2))
  /\ ~lastMsg.fault
  /\ Len(RoomEvents(roomLog, Room(RunIdOf(1)))) = 1

\* the message is discarded: not JSON, no run_id, or a channel whose last
\* segment is none of the five types
Discarded ==
  /\ IsDefined(lastMsg)
  /\ lastMsg.channel # STATUS_CHANNEL
  /\ \/ lastMsg.raw.kind # "object"
     \/ lastMsg.raw.run_id = Missing
     \/ Last(lastMsg.channel) \notin EventTypes

\* C5: a discarded event message causes no broadcaster call and no Run Store
\* change, and the next valid message is still routed normally.
C5_DiscardedQuietly ==
  /\ Discarded => /\ calls = <<>>
                  /\ runStore = lastMsg.before
                  /\ ReceivedNothing
                  /\ alive
  /\ dropped => RoutedNormally

\* a message was discarded, and the next one was routed
C5_Witness ==
  /\ dropped
  /\ WellFormed("thought_event", RunIdOf(1))
  /\ lastMsg.log = EmptyMap
  /\ ~lastMsg.fault
  /\ calls # <<>>

\* the status message of the listener that has just returned
StatusOf(R, st) ==
  /\ IsDefined(lastMsg)
  /\ lastMsg.channel = STATUS_CHANNEL
  /\ lastMsg.raw = StatusObject(R, st)

StatusHandledNormally ==
  \A R \in RunIds :
    /\ (StatusOf(R, "running") /\ ~lastMsg.fault /\ R \in DOMAIN lastMsg.before.byRunId)
         => getActiveByRunId(runStore, R).status = "running"
    /\ \A st \in terminalStates : (StatusOf(R, st) /\ ~lastMsg.fault) => R \notin ActiveIds

\* C6: an exception thrown by the broadcaster or the store inside a listener
\* does not leave the listener, and every later message on the event channels
\* and the status channel is handled as if nothing had failed.
C6_FaultIsolated ==
  /\ alive
  /\ faulted => (RoutedNormally /\ StatusHandledNormally)

\* the broadcaster threw on an event, and the next event was delivered
C6_Witness ==
  /\ faulted
  /\ published = 2
  /\ \E t \in EventTypes, R \in RunIds :
        /\ WellFormed(t, R)
        /\ ~lastMsg.fault
        /\ RoomEvents(roomLog, Room(R)) = <<t>>
        /\ lastMsg.log = EmptyMap
        /\ R \in DOMAIN lastMsg.before.byRunId

\* C7: handling one run_complete event for an active run R calls
\* emitRunComplete exactly once, for room /run/R, and leaves R absent from
\* the Run Store.
C7_RunCompleteEvicts ==
  \A R \in RunIds :
    ( /\ IsDefined(lastMsg)
      /\ lastMsg.channel = EventChannel("run_complete")
      /\ lastMsg.raw.kind = "object"
      /\ lastMsg.raw.run_id = R
      /\ R \in DOMAIN lastMsg.before.byRunId )
    => /\ Len(calls) = 1
       /\ calls[1].op = "emitRunComplete"
       /\ calls[1].room = Room(R)
       /\ getActiveByRunId(runStore, R) = Undefined

\* C8: the subscribers of a room receive at most one run_complete, and no
\* event after it.
C8_OneRunCompleteThenSilence ==
  \A room \in DOMAIN roomLog :
    \A i \in 1..Len(roomLog[room]) :
      roomLog[room][i] = "run_complete" => i = Len(roomLog[room])

----------------------------------------------------------------------------

Evicted(R) ==
  /\ WasRegistered(R)
  /\ R \notin ActiveIds
  /\ \A fp \in DOMAIN runStore.byFingerprint : runStore.byFingerprint[fp].run_id # R

\* C9: terminal is one-way: once run R has been evicted, no later message
\* makes it active again or gives it a status.
C9_TerminalIsOneWay == [][\A R \in RunIds : Evicted(R) => Evicted(R)']_vars

\* a status 'running' for R was handled after R had been evicted
C9_Witness ==
  \E R \in RunIds :
    /\ StatusOf(R, "running")
    /\ ~lastMsg.fault
    /\ R \notin DOMAIN lastMsg.before.byRunId
    /\ Evicted(R)

\* the listener that has just returned called markComplete(R)
MarkedComplete(R) ==
  /\ IsDefined(lastMsg)
  /\ ~lastMsg.fault
  /\ \/ \E st \in terminalStates : lastMsg.raw = StatusObject(R, st)
                                   /\ lastMsg.channel = STATUS_CHANNEL
     \/ /\ lastMsg.channel = EventChannel("run_complete")
        /\ lastMsg.raw.kind = "object"
        /\ lastMsg.raw.run_id = R

\* C10: markComplete for an already evicted run changes nothing, and no
\* markComplete(R) touches another run: a run registered meanwhile for the
\* same fingerprint stays active.
C10_MarkCompleteIdempotent ==
  \A R \in RunIds :
    MarkedComplete(R) =>
      /\ R \notin DOMAIN lastMsg.before.byRunId => runStore = lastMsg.before
      /\ \A other \in (DOMAIN lastMsg.before.byRunId) \ {R} :
           LET run == lastMsg.before.byRunId[other] IN
           /\ getActiveByRunId(runStore, other) = run
           /\ getActiveByFingerprint(runStore, run.fingerprint) = run

\* markComplete(R) for the evicted R, with its fingerprint active again
\* under another run id
C10_Witness ==
  \E R \in RunIds :
    /\ MarkedComplete(R)
    /\ R \notin DOMAIN lastMsg.before.byRunId
    /\ \E r \in ReqIds :
          /\ BuiltResponse(r)
          /\ req[r].response.run_id = R
          /\ IsDefined(getActiveByFingerprint(runStore, req[r].response.fingerprint))

----------------------------------------------------------------------------

\* C11: handling a status-channel message makes no broadcaster call; status
\* 'running' calls markRunning, status passed, failed or quarantined calls
\* markComplete, and any other status, or a missing run_id or status, leaves
\* the Run Store unchanged.
C11_StatusSyncsStoreOnly ==
  (IsDefined(lastMsg) /\ lastMsg.channel = STATUS_CHANNEL) =>
    /\ calls = <<>>
    /\ ReceivedNothing
    /\ LET raw == lastMsg.raw
           before == lastMsg.before
       IN  IF raw.kind = "object" /\ raw.run_id # Missing /\ ~lastMsg.fault
           THEN CASE raw.status = "running" ->
                       runStore = markRunning(before, raw.run_id)
                  [] raw.status \in {"passed", "failed", "quarantined"} ->
                       runStore = markComplete(before, raw.run_id)
                  [] OTHER -> runStore = before
           ELSE runStore = before

\* a terminal status for an active run was handled and evicted it, while
\* the other run stays queued
C11_Witness ==
  /\ StatusOf(RunIdOf(1), "failed")
  /\ ~lastMsg.fault
  /\ RunIdOf(1) \in DOMAIN lastMsg.before.byRunId
  /\ ActiveIds = {RunIdOf(2)}
  /\ runStore.byRunId[RunIdOf(2)].status = "queued"

----------------------------------------------------------------------------
\* worker: processAgentRun and the queue's retries

maxPollAttempts == 2     \* workerConfig.maxPollAttempts
JobAttempts == 3         \* defaultJobOptions.attempts
concurrency == 2         \* workerConfig.concurrency

\* what the agent's start operation may answer
StartOutcomes == {"accepted", "rejected", "non2xx", "timeout"}

\* what one status poll may give: the fetch throws or times out, a non-2xx
\* response, or a status
PollStatuses == {"running"} \cup terminalStates
PollOutcomes == {"throw", "non2xx"} \cup PollStatuses

\* a job: pc is where its current attempt stands (wait: in the queue; start:
\* at the start call; poll: in the poll loop; done: completed; failed: out of
\* attempts).  published and polled are the status updates and the poll
\* outcomes of the current attempt, running the attempts that published
\* 'running', accepted whether the agent has accepted the run.  started is
\* what the start call of the attempt answered.  sse is the stream read of the
\* attempt (none: bridgeSSE not called; open; ended: bridgeSSE has returned by
\* itself; aborted), opened the calls of bridgeSSE in the attempt, endedAt the
\* polls made when the stream ended by itself (-1: it has not), aborted and
\* awaited whether sseAbort.abort() was called and ssePromise awaited, stream
\* the frames the agent has sent on the stream of the attempt.
JobWaiting ==
  [pc |-> "wait", attemptsMade |-> 0, attempts |-> 0, terminal |-> FALSE,
   sse |-> "none", published |-> <<>>, polled |-> <<>>, accepted |-> FALSE,
   started |-> "none", opened |-> 0, endedAt |-> -1,
   aborted |-> FALSE, awaited |-> FALSE, stream |-> <<>>]

\* publishStatusUpdate: the text put on run:status
publishStatusUpdate(runId, status, currentNode) ==
  [channel |-> STATUS_CHANNEL,
   raw |-> [kind |-> "object", run_id |-> runId, status |-> status,
            current_node |-> currentNode]]

\* a publisher whose later publish may overtake an earlier one
Published_Overtaking(queue, m) == IF running THEN <<m>> \o queue ELSE queue

\* redis.publish of the worker: lost while nobody is subscribed
Published(queue, m) == IF running THEN Append(queue, m) ELSE queue

StatusUpdate(status, currentNode) == [status |-> status, current_node |-> currentNode]

ActiveJobs == {j \in DOMAIN worker : worker[j].pc \in {"start", "poll"}}

WorkerFrame == UNCHANGED <<runStore, uuidCount, req, dbRows, jobs, enqueued, running, alive,
                           published, faulted, dropped, rejected, roomLog, outputs, http, applied, subscriber, dash, emitted>>

\* The worker takes job j from the queue and processAgentRun runs up
\* to the start call: it publishes status 'running' first.
WorkerBegin(j) ==
  /\ j \in DOMAIN worker
  /\ worker[j].pc = "wait"
  /\ Cardinality(ActiveJobs) < concurrency
  /\ worker' = [worker EXCEPT ![j] =
        [@ EXCEPT !.pc = "start", !.attemptsMade = @ + 1, !.attempts = 0,
                  !.terminal = FALSE, !.sse = "none", !.polled = <<>>,
                  !.started = "none", !.opened = 0, !.endedAt = -1,
                  !.aborted = FALSE, !.awaited = FALSE, !.stream = <<>>,
                  !.published = <<StatusUpdate("running", "repo_scanner")>>]]
  /\ pubsub' = Published(pubsub, publishStatusUpdate(jobs[j].run_id, "running", "repo_scanner"))
  /\ NoListener
  /\ WorkerFrame

\* the attempt ends with an error: the queue retries it while attempts remain
Thrown(w) == [w EXCEPT !.pc = IF w.attemptsMade < JobAttempts THEN "wait" ELSE "failed"]

\* a start call that does not look at the accepted flag of the answer
StartAccepted_IgnoresFlag(outcome) == outcome \in {"accepted", "rejected"}

\* the start call lets the attempt go on: fetch did not throw, the response
\* is ok and its body says accepted
StartAccepted(outcome) == outcome = "accepted"

\* const ssePromise = bridgeSSE(redis, run_id, sseAbort.signal)
OpenStream(w) == [w EXCEPT !.sse = "open", !.opened = @ + 1]

\* The start call settles.  Accepted: the stream listener is started and the
\* poll loop is entered; otherwise processAgentRun throws.
WorkerStart(j, outcome) ==
  /\ j \in DOMAIN worker
  /\ worker[j].pc = "start"
  /\ worker' = [worker EXCEPT ![j] =
        IF StartAccepted(outcome)
        THEN [OpenStream(@) EXCEPT !.pc = "poll", !.accepted = TRUE, !.started = outcome]
        ELSE [Thrown(@) EXCEPT !.started = outcome]]
  /\ pubsub' = pubsub
  /\ NoListener
  /\ WorkerFrame

\* a loop that goes on after a terminal status
PollAgain_IgnoresTerminal(w) == w.attempts < maxPollAttempts

\* while (attempts < workerConfig.maxPollAttempts && !terminal)
PollAgain(w) == w.attempts < maxPollAttempts /\ ~w.terminal

\* a poll loop that leaves the loop on a terminal status before publishing it
PollPublishes_OnlyRunning(outcome) == outcome = "running"

\* the poll reaches publishStatusUpdate: fetch did not throw and the response
\* is ok (if (!statusResp.ok) continue)
PollPublishes(outcome) == outcome \in PollStatuses

\* a poll loop without its try/catch: a failed poll fails the attempt
PollFailed_Throws(w, outcome) ==
  Thrown([w EXCEPT !.attempts = @ + 1, !.polled = Append(@, outcome)])

\* a poll that throws, times out or answers non-2xx: the turn is counted and
\* the loop goes back to its condition (continue, or the catch that warns)
PollFailed(w, outcome) ==
  [w EXCEPT !.attempts = @ + 1, !.polled = Append(@, outcome)]

\* One turn of the poll loop: sleep, count the attempt, poll; a status is
\* published and, when terminal, ends the loop.
WorkerPoll(j, outcome) ==
  /\ j \in DOMAIN worker
  /\ worker[j].pc = "poll"
  /\ PollAgain(worker[j])
  /\ IF PollPublishes(outcome)
     THEN /\ worker' = [worker EXCEPT ![j] =
                [@ EXCEPT !.attempts = @ + 1,
                          !.polled = Append(@, outcome),
                          !.published = Append(@, StatusUpdate(outcome, "agent")),
                          !.terminal = (outcome \in terminalStates)]]
          /\ pubsub' = Published(pubsub, publishStatusUpdate(jobs[j].run_id, outcome, "agent"))
     ELSE /\ worker' = [worker EXCEPT ![j] = PollFailed(@, outcome)]
          /\ pubsub' = pubsub
  /\ NoListener
  /\ WorkerFrame

\* a stream that is opened again when it has ended
StreamEnded_Reconnects(w) ==
  [w EXCEPT !.sse = "open", !.endedAt = w.attempts,
            !.opened = IF @ < 2 THEN @ + 1 ELSE @]

\* The stream read of job j ends by itself while the attempt polls: the
\* response is not ok or has no body, the agent closes the stream, or the
\* read throws.  bridgeSSE returns; nothing calls it again.
StreamEnded(w) == [w EXCEPT !.sse = "ended", !.endedAt = w.attempts]

StreamEnds(j) ==
  /\ j \in DOMAIN worker
  /\ worker[j].pc = "poll"
  /\ worker[j].sse = "open"
  /\ worker' = [worker EXCEPT ![j] = StreamEnded(@)]
  /\ pubsub' = pubsub
  /\ NoListener
  /\ WorkerFrame

\* a worker that stops the stream only after a terminal status
StopStream_OnlyWhenTerminal(w) ==
  IF w.terminal
  THEN [w EXCEPT !.sse = IF @ = "open" THEN "aborted" ELSE @,
                 !.aborted = TRUE, !.awaited = TRUE]
  ELSE w

\* sseAbort.abort(); await ssePromise.catch(() => {}): a read that is still
\* going on is aborted, bridgeSSE returns from its catch and the await goes
\* on without an error
StopStream(w) ==
  [w EXCEPT !.sse = IF @ = "open" THEN "aborted" ELSE @,
            !.aborted = TRUE, !.awaited = TRUE]

\* The loop has ended: the stream is aborted, and without a terminal status
\* the update failed/timeout is published.
WorkerFinish(j) ==
  /\ j \in DOMAIN worker
  /\ worker[j].pc = "poll"
  /\ ~PollAgain(worker[j])
  /\ IF worker[j].terminal
     THEN /\ worker' = [worker EXCEPT ![j] = [StopStream(@) EXCEPT !.pc = "done"]]
          /\ pubsub' = pubsub
     ELSE /\ worker' = [worker EXCEPT ![j] =
                [StopStream(@) EXCEPT !.pc = "done",
                          !.published = Append(@, StatusUpdate("failed", "timeout"))]]
          /\ pubsub' = Published(pubsub, publishStatusUpdate(jobs[j].run_id, "failed", "timeout"))
  /\ NoListener
  /\ WorkerFrame

\* WorkerSpec: the gateway has accepted SubmissionA, the run is queued and
\* its job is in the queue; the worker and the bridge's status listener.
WorkerInit ==
  /\ runStore = registerQueuedRun([byFingerprint |-> EmptyMap, byRunId |-> EmptyMap],
                                  AcceptedRun(SubmissionA, 1)).store
  /\ uuidCount = 1
  /\ req = [r \in ReqIds |-> IF r = 1 THEN Accepted(SubmissionA, 1) ELSE Idle]
  /\ dbRows = {RunIdOf(1)}
  /\ jobs = enqueueAgentRun(EmptyMap, AgentRunJobData(AcceptedRun(SubmissionA, 1)))
  /\ enqueued = Counted(EmptyMap, RunIdOf(1))
  /\ running = TRUE
  /\ alive = TRUE
  /\ pubsub = <<>>
  /\ published = 0
  /\ lastMsg = Undefined
  /\ calls = <<>>
  /\ faulted = FALSE
  /\ dropped = FALSE
  /\ rejected = FALSE
  /\ roomLog = EmptyMap
  /\ outputs = EmptyMap
  /\ http = Undefined
  /\ applied = Undefined
  /\ subscriber = Started
  /\ emitted = <<>>
  /\ dash = Undefined
  /\ worker = [j \in DOMAIN jobs |-> JobWaiting]

WorkerNext ==
  \/ \E j \in DOMAIN jobs : WorkerBegin(j)
  \/ \E j \in DOMAIN jobs, outcome \in StartOutcomes : WorkerStart(j, outcome)
  \/ \E j \in DOMAIN jobs, outcome \in PollOutcomes : WorkerPoll(j, outcome)
  \/ \E j \in DOMAIN jobs : StreamEnds(j)
  \/ \E j \in DOMAIN jobs : WorkerFinish(j)
  \/ \E i \in 1..MaxPub, fault \in BOOLEAN : OnMessage(i, fault)

WorkerSpec == WorkerInit /\ [][WorkerNext]_vars

----------------------------------------------------------------------------

\* C12: the status of a run in the Run Store is 'running' only after the
\* agent's start operation has accepted the run; an attempt whose start call
\* is rejected, answers non-2xx or times out never makes the run 'running'.
C12_RunningOnlyAfterAccepted ==
  \A R \in ActiveIds :
    runStore.byRunId[R].status = "running" =>
      \E j \in DOMAIN worker : jobs[j].run_id = R /\ worker[j].accepted

\* the status updates failed/timeout among those the attempt has published
Timeouts(w) == {i \in 1..Len(w.published) : w.published[i] = StatusUpdate("failed", "timeout")}

\* the polls of the attempt that returned a terminal status
TerminalPolls(w) == {i \in 1..Len(w.polled) : w.polled[i] \in {"passed", "failed", "quarantined"}}

----------------------------------------------------------------------------

\* the durable-store insert of request r has failed
InsertFailed(r) ==
  /\ BuiltResponse(r)
  /\ req[r].pc \in {"enqueue", "done"}
  /\ req[r].response.run_id \notin dbRows

\* the enqueue of request r has failed
EnqueueFailed(r) ==
  /\ BuiltResponse(r)
  /\ req[r].response.run_id \in DOMAIN enqueued
  /\ req[r].response.run_id \notin QueuedRunIds

\* C14: a Submit whose durable-store insert or enqueue has failed is still
\* answered 202 with the run response, and its run is registered in the Run
\* Store as queued.
C14_BestEffortFailuresStill202 ==
  \A r \in ReqIds :
    (req[r].pc = "done" /\ (InsertFailed(r) \/ EnqueueFailed(r))) =>
      /\ req[r].status = 202
      /\ req[r].reply = req[r].response
      /\ EnqueueFailed(r) =>
           /\ IsDefined(getActiveByRunId(runStore, req[r].response.run_id))
           /\ getActiveByRunId(runStore, req[r].response.run_id).status = "queued"

----------------------------------------------------------------------------
\* QueueSpec: WorkerSpec with enqueueAgentRun called again for a run whose
\* job is in the queue.  Jobs stay in the queue after they end
\* (removeOnComplete and removeOnFail keep the last hundreds).

MaxEnqueue == 3      \* calls of enqueueAgentRun per run id

Reenqueue(R) ==
  /\ R \in DOMAIN enqueued
  /\ enqueued[R] < MaxEnqueue
  /\ jobs' = enqueueAgentRun(jobs, [run_id |-> R])
  /\ enqueued' = Counted(enqueued, R)
  /\ worker' = [j \in DOMAIN jobs' |-> IF j \in DOMAIN worker THEN worker[j] ELSE JobWaiting]
  /\ NoListener
  /\ UNCHANGED <<runStore, uuidCount, req, dbRows, running, alive, pubsub, published,
                 faulted, dropped, rejected, roomLog, outputs, http, applied, subscriber, dash, emitted>>

QueueNext ==
  \/ WorkerNext
  \/ \E R \in RunIds : Reenqueue(R)

QueueSpec == WorkerInit /\ [][QueueNext]_vars

JobsOf(R) == {j \in DOMAIN jobs : jobs[j].run_id = R}

----------------------------------------------------------------------------
\* Schema validation in the broadcaster (BridgeSpec)

\* the listener that has just returned was given, on the channel of one of the
\* five types, an object with a run_id that has not the shape of that type
InvalidEmit ==
  /\ IsDefined(lastMsg)
  /\ lastMsg.channel \in {EventChannel(t) : t \in EventTypes}
  /\ lastMsg.raw.kind = "object"
  /\ lastMsg.raw.run_id # Missing
  /\ lastMsg.raw.shape # Last(lastMsg.channel)

\* C17: a payload that fails the schema of its variant reaches no subscriber,
\* and once the broadcaster has dropped one, a later valid payload is still
\* delivered to its room.
C17_InvalidNeverDelivered ==
  /\ InvalidEmit => ReceivedNothing
  /\ rejected => RoutedNormally

\* an invalid payload was dropped, and the next, valid, one was delivered
C17_Witness ==
  /\ rejected
  /\ WellFormed("ci_update", RunIdOf(1))
  /\ ~lastMsg.fault
  /\ roomLog = Put(EmptyMap, Room(RunIdOf(1)), <<"ci_update">>)

----------------------------------------------------------------------------
\* Rejected submissions (Spec)

\* the handler of request r has taken a step
Stepped(r) == req'[r] # req[r]

\* C18: no step of a Submit that is answered 400, 409 or 500 changes the Run
\* Store, the runs table or the queue.
C18_RejectedSubmitChangesNothing ==
  [][\A r \in ReqIds :
       (Stepped(r) /\ req'[r].status \in {400, 409, 500}) =>
          /\ runStore' = runStore
          /\ dbRows' = dbRows
          /\ jobs' = jobs
          /\ enqueued' = enqueued]_vars

\* with one run registered and queued, a duplicate was answered 409 and a
\* submission without repo_url 400
C18_Witness ==
  /\ req[1].status = 202
  /\ req[2].status = 409
  /\ req[3].status = 400
  /\ req[3].body = SubmissionNoRepo
  /\ DOMAIN runStore.byRunId = {RunIdOf(1)}
  /\ dbRows = {RunIdOf(1)}
  /\ QueuedRunIds = {RunIdOf(1)}

----------------------------------------------------------------------------
\* artifacts.ts: the outputs directory holds, per run id, results.json and
\* report.pdf.  results.json is "valid" (parses and passes the current
\* schema), "legacy" (parses, fails the current schema) or "corrupt" (is not
\* JSON).

ResultsKinds == {"valid", "legacy", "corrupt"}

NoArtifacts == [results |-> Missing, report |-> FALSE]

ArtifactsOf(out, runId) == IF runId \in DOMAIN out THEN out[runId] ELSE NoArtifacts

\* the :runId parameters of the requests: the ids the gateway generates, an id
\* of no run, a path that climbs out of the outputs directory, and an id
\* longer than the pattern allows
UnknownRunId == "run_9"
TraversalRunId == "../run_1"
LongRunId == "run_1111111111111111111111111111111111111111111111111111111111111111"

RunIdParams == RunIds \cup {UnknownRunId, TraversalRunId, LongRunId}

\* the safe-character/length pattern
RunIdPattern(runId) == runId \in RunIds \cup {UnknownRunId}

\* the outcome of a call: [threw, message, value, fs]; message is the set of
\* phrases the Error's message contains, fs the filesystem accesses made
Raise(message, fs) == [threw |-> TRUE, message |-> message, value |-> Undefined, fs |-> fs]
Return(value, fs) == [threw |-> FALSE, message |-> {}, value |-> value, fs |-> fs]

Includes(message, phrase) == phrase \in message

FsAccess(op, runId, file) == [op |-> op, runId |-> runId, file |-> file]

assertRunId(runId) ==
  IF RunIdPattern(runId) THEN Return(runId, <<>>) ELSE Raise({"Invalid run_id"}, <<>>)

ResultsPayload(runId, kind) == [run_id |-> runId, final_status |-> "PASSED", contract |-> kind]

readResultsArtifact(out, runId) ==
  IF assertRunId(runId).threw THEN assertRunId(runId)
  ELSE
    LET kind == ArtifactsOf(out, runId).results
        fs == <<FsAccess("readFile", runId, "results.json")>>
    IN  CASE kind = Missing   -> Raise({"ENOENT"}, fs)
          [] kind = "corrupt" -> Raise({"Unexpected token"}, fs)
          [] kind = "legacy"  -> Raise({"results.json", "violates contract"}, fs)
          [] OTHER            -> Return(ResultsPayload(runId, kind), fs)

readResultsArtifactRaw(out, runId) ==
  IF assertRunId(runId).threw THEN assertRunId(runId)
  ELSE
    LET kind == ArtifactsOf(out, runId).results
        fs == <<FsAccess("readFile", runId, "results.json")>>
    IN  CASE kind = Missing   -> Raise({"ENOENT"}, fs)
          [] kind = "corrupt" -> Raise({"Unexpected token"}, fs)
          [] OTHER            -> Return(ResultsPayload(runId, kind), fs)

hasReportArtifact(out, runId) ==
  Return(ArtifactsOf(out, runId).report, <<FsAccess("access", runId, "report.pdf")>>)

reportArtifactPath(runId) == <<"outputs", runId, "report.pdf">>

----------------------------------------------------------------------------
\* routes/run-query.ts: each handler as the response it sends

Response(status, headers, body, fs) ==
  [status |-> status, headers |-> headers, body |-> body, fs |-> fs]

InvalidRunId(fs) ==
  Response(400, EmptyMap, buildErrorEnvelope("INVALID_INPUT", "Invalid run_id"), fs)

NotFound(message, fs) ==
  Response(404, EmptyMap, buildErrorEnvelope("NOT_FOUND", message), fs)

\* GET /agent/status/:runId.  dbOk: the query of the runs table succeeds
statusRoute(store, out, rows, dbOk, runId) ==
  IF assertRunId(runId).threw THEN InvalidRunId(<<>>)
  ELSE
    LET active == getActiveByRunId(store, runId) IN
    IF IsDefined(active)
    THEN Response(200, EmptyMap,
                  [run_id |-> active.run_id, status |-> active.status,
                   current_node |-> "queued", progress_pct |-> 0], <<>>)
    ELSE
      LET results == readResultsArtifact(out, runId) IN
      IF ~results.threw
      THEN Response(200, EmptyMap,
                    [run_id |-> results.value.run_id, status |-> "passed",
                     current_node |-> "complete", progress_pct |-> 100], results.fs)
      ELSE IF dbOk /\ runId \in rows
           THEN Response(200, EmptyMap,
                         [run_id |-> runId, status |-> "queued",
                          current_node |-> "running", progress_pct |-> 50], results.fs)
           ELSE NotFound("Run not found", results.fs)

\* a handler that takes no failed read for a contract violation
isContractViolation_Never(error) == FALSE

\* error instanceof Error && error.message.includes("violates contract")
isContractViolation(error) == Includes(error.message, "violates contract")

\* GET /results/:runId.  later: the outputs directory when the raw read is made
resultsRoute(out, later, runId) ==
  LET payload == readResultsArtifact(out, runId) IN
  IF ~payload.threw THEN Response(200, EmptyMap, payload.value, payload.fs)
  ELSE IF Includes(payload.message, "Invalid run_id") THEN InvalidRunId(payload.fs)
  ELSE IF isContractViolation(payload)
       THEN LET legacyPayload == readResultsArtifactRaw(later, runId)
                fs == payload.fs \o legacyPayload.fs
            IN  IF ~legacyPayload.threw
                THEN Response(200, Put(EmptyMap, "X-Results-Contract", "legacy"),
                              legacyPayload.value, fs)
                ELSE NotFound("results.json not found", fs)
       ELSE NotFound("results.json not found", payload.fs)

\* a handler that looks the report up without asserting the run id
reportRoute_NoAssert(out, runId) ==
  LET hasReport == hasReportArtifact(out, runId) IN
  IF ~hasReport.value THEN NotFound("report.pdf not found", hasReport.fs)
  ELSE Response(200,
                Put(Put(EmptyMap, "Content-Type", "application/pdf"),
                    "Content-Disposition", <<"attachment", runId, "-report.pdf">>),
                [file |-> reportArtifactPath(runId)],
                Append(hasReport.fs, FsAccess("sendFile", runId, "report.pdf")))

\* GET /report/:runId
reportRoute(out, runId) ==
  IF assertRunId(runId).threw THEN InvalidRunId(<<>>)
  ELSE
    LET hasReport == hasReportArtifact(out, runId) IN
    IF hasReport.threw THEN InvalidRunId(hasReport.fs)
    ELSE IF ~hasReport.value THEN NotFound("report.pdf not found", hasReport.fs)
    ELSE Response(200,
                  Put(Put(EmptyMap, "Content-Type", "application/pdf"),
                      "Content-Disposition", <<"attachment", runId, "-report.pdf">>),
                  [file |-> reportArtifactPath(runId)],
                  Append(hasReport.fs, FsAccess("sendFile", runId, "report.pdf")))

\* GET /replay/:runId.  dbOk: the query of execution_traces succeeds
replayRoute(dbOk, runId) ==
  IF assertRunId(runId).threw THEN InvalidRunId(<<>>)
  ELSE IF dbOk THEN Response(200, EmptyMap, [run_id |-> runId, events |-> <<>>], <<>>)
  ELSE Response(500, EmptyMap,
                buildErrorEnvelope("INTERNAL_ERROR", "Failed to retrieve replay data"), <<>>)

\* the agent's answer to the proxied query: its status, or no answer at all
AgentReplies == {[reached |-> TRUE, status |-> 200], [reached |-> TRUE, status |-> 500],
                 [reached |-> FALSE, status |-> 0]}

QueryBodies == {[run_id |-> RunIdOf(1), question |-> "why"],
                [run_id |-> RunIdOf(1), question |-> Missing],
                [run_id |-> Missing, question |-> "why"],
                [run_id |-> TraversalRunId, question |-> "why"]}

\* a proxy that hands the agent's own body down with the agent's status
agentError_PassThrough(status) ==
  Response(status, EmptyMap, [detail |-> "agent failure"], <<>>)

\* res.status(agentResp.status).json(buildErrorEnvelope("AGENT_ERROR", ...))
agentError(status) ==
  Response(status, EmptyMap,
           buildErrorEnvelope("AGENT_ERROR", <<"Agent returned", status>>), <<>>)

\* POST /agent/query
agentQueryRoute(body, agent) ==
  LET run_id == Field(body, "run_id")
      question == Field(body, "question")
  IN
  IF ~Truthy(run_id) \/ ~Truthy(question)
  THEN Response(400, EmptyMap,
                buildErrorEnvelope("INVALID_INPUT", "run_id and question are required"), <<>>)
  ELSE IF assertRunId(run_id).threw THEN InvalidRunId(<<>>)
  ELSE IF ~agent.reached
       THEN Response(502, EmptyMap,
                     buildErrorEnvelope("AGENT_UNREACHABLE", "Could not reach agent service"),
                     <<>>)
  ELSE IF agent.status \notin 200..299 THEN agentError(agent.status)
  ELSE Response(200, EmptyMap, [answer |-> "data"], <<>>)

----------------------------------------------------------------------------
\* QuerySpec: the query routes at work.  SubmissionA and SubmissionB were
\* accepted, the run of SubmissionB has completed and left the Run Store; a
\* third Submit may arrive, the agent writes artifacts, clients query.

MaxArtifacts == 1     \* run directories under the outputs directory

\* stored: the artifacts of the requested run when the request arrived;
\* later: when the handler made its last read
Answer(route, runId, response, later) ==
  /\ http' = [route |-> route, runId |-> runId, response |-> response,
              stored |-> ArtifactsOf(outputs, runId),
              later |-> ArtifactsOf(later, runId)]
  /\ UNCHANGED <<runStore, uuidCount, req, dbRows, jobs, enqueued, running, alive, pubsub,
                 published, lastMsg, calls, faulted, dropped, rejected, roomLog, worker,
                 applied, subscriber, dash, emitted>>

GetStatus(runId, dbOk) ==
  /\ Answer("status", runId, statusRoute(runStore, outputs, dbRows, dbOk, runId), outputs)
  /\ UNCHANGED outputs

\* gone: the run's directory is removed while the handler awaits its first read
GetResults(runId, gone) ==
  LET later == IF gone THEN Del(outputs, runId) ELSE outputs IN
  /\ Answer("results", runId, resultsRoute(outputs, later, runId), later)
  /\ outputs' = later

GetReport(runId) ==
  /\ Answer("report", runId, reportRoute(outputs, runId), outputs)
  /\ UNCHANGED outputs

GetReplay(runId, dbOk) ==
  /\ Answer("replay", runId, replayRoute(dbOk, runId), outputs)
  /\ UNCHANGED outputs

PostAgentQuery(body, agent) ==
  /\ Answer("query", Field(body, "run_id"), agentQueryRoute(body, agent), outputs)
  /\ UNCHANGED outputs

\* the agent writes the artifacts of a run it was given
AgentWrites(R, kind, report) ==
  /\ R \in QueuedRunIds
  /\ IF R \in DOMAIN outputs THEN TRUE ELSE Cardinality(DOMAIN outputs) < MaxArtifacts
  /\ outputs' = Put(outputs, R, [results |-> kind, report |-> report])
  /\ UNCHANGED <<runStore, uuidCount, req, dbRows, jobs, enqueued, running, alive, pubsub,
                 published, lastMsg, calls, faulted, dropped, rejected, roomLog, worker, http, applied, subscriber, dash, emitted>>

QueryInit ==
  /\ runStore = markComplete(
                   registerQueuedRun(
                      registerQueuedRun([byFingerprint |-> EmptyMap, byRunId |-> EmptyMap],
                                        AcceptedRun(SubmissionA, 1)).store,
                      AcceptedRun(SubmissionB, 2)).store,
                   RunIdOf(2))
  /\ uuidCount = 2
  /\ req = [r \in ReqIds |-> CASE r = 1 -> Accepted(SubmissionA, 1)
                               [] r = 2 -> Accepted(SubmissionB, 2)
                               [] OTHER -> Idle]
  /\ dbRows = {RunIdOf(1), RunIdOf(2)}
  /\ jobs = enqueueAgentRun(enqueueAgentRun(EmptyMap, AgentRunJobData(AcceptedRun(SubmissionA, 1))),
                            AgentRunJobData(AcceptedRun(SubmissionB, 2)))
  /\ enqueued = Counted(Counted(EmptyMap, RunIdOf(1)), RunIdOf(2))
  /\ running = TRUE
  /\ alive = TRUE
  /\ pubsub = <<>>
  /\ published = 0
  /\ lastMsg = Undefined
  /\ calls = <<>>
  /\ faulted = FALSE
  /\ dropped = FALSE
  /\ rejected = FALSE
  /\ roomLog = EmptyMap
  /\ worker = EmptyMap
  /\ outputs = EmptyMap
  /\ http = Undefined
  /\ applied = Undefined
  /\ subscriber = Started
  /\ emitted = <<>>
  /\ dash = Undefined

QueryNext ==
  \/ \E r \in ReqIds, body \in Submissions : SubmitBegin(r, body)
  \/ \E r \in ReqIds, dbOk \in BOOLEAN, enqOk \in BOOLEAN : SubmitAfterDb(r, dbOk, enqOk)
  \/ \E r \in ReqIds : SubmitRespond(r)
  \/ \E R \in RunIds, kind \in ResultsKinds \cup {Missing}, report \in BOOLEAN :
        AgentWrites(R, kind, report)
  \/ \E runId \in RunIdParams, dbOk \in BOOLEAN : GetStatus(runId, dbOk)
  \/ \E runId \in RunIdParams, gone \in BOOLEAN : GetResults(runId, gone)
  \/ \E runId \in RunIdParams : GetReport(runId)
  \/ \E runId \in RunIdParams, dbOk \in BOOLEAN : GetReplay(runId, dbOk)
  \/ \E body \in QueryBodies, agent \in AgentReplies : PostAgentQuery(body, agent)

QuerySpec == QueryInit /\ [][QueryNext]_vars

----------------------------------------------------------------------------
\* Failure responses (QuerySpec)

\* { error: { code, message, ... } } and no other top-level key
ErrorEnvelope(body) ==
  /\ DOMAIN body = {"error"}
  /\ {"code", "message"} \subseteq DOMAIN body.error

\* the query route answered last sent a failure
QueryFailed == IsDefined(http) /\ http.response.status \notin 200..299

\* C16 as stated: every failure response, the 409 of a duplicate included, is
\* the error envelope and carries no other top-level field.
C16_EveryFailureIsEnvelope ==
  /\ \A r \in ReqIds : req[r].status >= 400 => ErrorEnvelope(req[r].reply)
  /\ QueryFailed => ErrorEnvelope(http.response.body)

\* C16: every failure response other than the 409 of a duplicate is the error
\* envelope; the 409 carries run_id, status and message of the active run and
\* no error key.
C16_FailureIsEnvelopeExceptDuplicate ==
  /\ \A r \in ReqIds :
       req[r].status >= 400 =>
         IF req[r].status = 409
         THEN DOMAIN req[r].reply = {"run_id", "status", "message"}
         ELSE ErrorEnvelope(req[r].reply)
  /\ QueryFailed => ErrorEnvelope(http.response.body)

\* a duplicate was answered 409 and the agent's 500 was proxied
C16_Witness ==
  /\ req[3].status = 409
  /\ QueryFailed
  /\ http.route = "query"
  /\ http.response.status = 500

----------------------------------------------------------------------------
\* Fetch results (QuerySpec)

\* GET /results/:runId was answered last
ResultsFetched == IsDefined(http) /\ http.route = "results"

\* results.json of the requested run when the request arrived, and when the
\* handler read it last
StoredAtArrival == http.stored.results
StoredAtLastRead == http.later.results

Unreadable == {Missing, "corrupt"}

LegacyMarker == Put(EmptyMap, "X-Results-Contract", "legacy")

\* C19: results of a run whose stored artifact fails the current schema are
\* answered 200 with the raw artifact under X-Results-Contract: legacy; 404 is
\* answered only when no artifact can be read, 400 only for an invalid run id.
C19_LegacyArtifactServed ==
  ResultsFetched =>
    /\ (StoredAtArrival = "legacy" /\ StoredAtLastRead = "legacy") =>
          /\ http.response.status = 200
          /\ http.response.headers = LegacyMarker
          /\ http.response.body = [run_id |-> http.runId, final_status |-> "PASSED",
                                   contract |-> "legacy"]
    /\ http.response.status = 404 =>
          (StoredAtArrival \in Unreadable \/ StoredAtLastRead \in Unreadable)
    /\ http.response.status = 400 => http.runId \in {TraversalRunId, LongRunId}

\* the legacy artifact of the completed run was served
C19_Witness ==
  /\ ResultsFetched
  /\ http.runId = RunIdOf(2)
  /\ RunIdOf(2) \notin ActiveIds
  /\ StoredAtArrival = "legacy"
  /\ http.response.status = 200
  /\ http.response.headers = LegacyMarker

----------------------------------------------------------------------------
\* Run id validation before filesystem access (QuerySpec)

\* results or report was requested last, with a run id outside the pattern
UnsafeArtifactRequest ==
  /\ IsDefined(http)
  /\ http.route \in {"results", "report"}
  /\ http.runId \in {TraversalRunId, LongRunId}

\* C20: a results or report request whose run id fails the pattern is answered
\* 400 and no filesystem access is made for it.
C20_NoFsAccessForUnsafeRunId ==
  UnsafeArtifactRequest =>
    /\ http.response.status = 400
    /\ http.response.fs = <<>>

\* the report of ../run_1 was requested while run_1 has a report
C20_Witness ==
  /\ UnsafeArtifactRequest
  /\ http.route = "report"
  /\ http.runId = TraversalRunId
  /\ ArtifactsOf(outputs, RunIdOf(1)).report
  /\ http.response.status = 400

----------------------------------------------------------------------------
\* PureSpec: the pure functions, each applied once to arguments drawn from
\* bounded sets.  applied = [fn, args, returned, result]

MaxTeamLen == 3       \* characters of a team name
MaxLeaderLen == 2     \* characters of a leader name

NameChars == {"a", "B", "1", "_", " ", "*"}

RECURSIVE NamesOfLen(_)
NamesOfLen(n) ==
  IF n = 0 THEN {<<>>} ELSE {Append(name, c) : name \in NamesOfLen(n - 1), c \in NameChars}

Names(maxLen) == UNION {NamesOfLen(n) : n \in 0..maxLen}

Call(fn, args) == [fn |-> fn, args |-> args, returned |-> FALSE, result |-> Undefined]

Calling(fn) == IsDefined(applied) /\ applied.fn = fn /\ ~applied.returned

Returned(fn) == IsDefined(applied) /\ applied.fn = fn /\ applied.returned

Apply(result) ==
  /\ applied' = [applied EXCEPT !.returned = TRUE, !.result = result]
  /\ UNCHANGED <<runStore, uuidCount, req, dbRows, jobs, enqueued, running, alive, pubsub,
                 published, lastMsg, calls, faulted, dropped, rejected, roomLog, worker,
                 outputs, http, subscriber, dash, emitted>>

\* formatBranchName(team, leader), and the status a first Submit of these
\* names with a repo_url is answered at once (0: none before the insert; no
\* Submit is made with an empty name)
ApplyFormatBranchName ==
  /\ Calling("formatBranchName")
  /\ LET team == applied.args[1]
         leader == applied.args[2]
         branch == formatBranchName(team, leader)
         submit == SubmitSync([byFingerprint |-> EmptyMap, byRunId |-> EmptyMap],
                              [repo_url |-> RepoUrl, team_name |-> team,
                               leader_name |-> leader], 0)
     IN  Apply([threw |-> branch.threw, value |-> branch.value,
                status |-> IF team = <<>> THEN NoResponse
                           ELSE IF leader = <<>> THEN NoResponse
                           ELSE submit.req.status])

FormatBranchNameCalls ==
  {Call("formatBranchName", <<team, leader>>) :
     team \in Names(MaxTeamLen), leader \in Names(MaxLeaderLen)}

\* compliance.ts -------------------------------------------------------------
toLowerCase(c) ==
  CASE c = "M" -> "m" [] c = "A" -> "a" [] c = "I" -> "i" [] c = "N" -> "n"
    [] c = "S" -> "s" [] c = "T" -> "t" [] c = "E" -> "e" [] c = "R" -> "r"
    [] c = "B" -> "b" [] c = "F" -> "f" [] c = "X" -> "x" [] OTHER -> c

RECURSIVE MapLower(_)
MapLower(s) == IF s = <<>> THEN <<>> ELSE <<toLowerCase(Head(s))>> \o MapLower(Tail(s))

main == <<"m", "a", "i", "n">>
master == <<"m", "a", "s", "t", "e", "r">>

\* a guard that compares the name as it is written
assertNonProtectedTargetBranch_CaseSensitive(branch) ==
  [threw |-> branch \in {main, master}]

\* [threw]
assertNonProtectedTargetBranch(branch) ==
  [threw |-> MapLower(branch) \in {main, master}]

\* branch names asked of the guard besides the formatter's outputs
BranchSamples ==
  {main, master, <<"M", "a", "i", "n">>, <<"M", "A", "S", "T", "E", "R">>,
   <<"m", "A", "i", "N">>, <<"m", "a", "s", "t", "e", "R">>,
   <<"d", "e", "v">>, <<"f", "e", "a", "t", "u", "r", "e", "/", "a", "i", "-", "f", "i", "x">>,
   <<"m", "a", "i", "n", "s">>, <<"m", "a", "i">>, <<"m", "a", "i", "n", " ">>,
   <<"m", "a", "s", "t", "e", "r", "_", "A", "I", "_", "F", "i", "x">>, <<>>}

FormatOutputs ==
  {formatBranchName(c.args[1], c.args[2]).value :
     c \in {d \in FormatBranchNameCalls : ~formatBranchName(d.args[1], d.args[2]).threw}}

ApplyAssertNonProtectedTargetBranch ==
  /\ Calling("assertNonProtectedTargetBranch")
  /\ Apply(assertNonProtectedTargetBranch(applied.args[1]))

ProtectedBranchCalls ==
  {Call("assertNonProtectedTargetBranch", <<b>>) : b \in BranchSamples \cup FormatOutputs}

null == "(null)"

CanonicalBugTypes == {"LINTING", "SYNTAX", "LOGIC", "TYPE_ERROR", "IMPORT", "INDENTATION"}

\* String.prototype.toUpperCase on the classifications asked
toUpperCase(s) ==
  CASE s = "linting" -> "LINTING" [] s = "syntax" -> "SYNTAX" [] s = "logic" -> "LOGIC"
    [] s = "type_error" -> "TYPE_ERROR" [] s = "import" -> "IMPORT"
    [] s = "indentation" -> "INDENTATION" [] OTHER -> s

BugTypeAliases ==
  [lint |-> "LINTING", style |-> "LINTING", format |-> "LINTING",
   parse |-> "SYNTAX", compilation |-> "SYNTAX",
   runtime |-> "LOGIC", semantic |-> "LOGIC",
   type |-> "TYPE_ERROR", types |-> "TYPE_ERROR", typing |-> "TYPE_ERROR",
   module |-> "IMPORT", dependency |-> "IMPORT",
   whitespace |-> "INDENTATION", indent |-> "INDENTATION"]

\* a normalizer that files what it does not know under LOGIC
normalizeBugType_Coerces(raw) ==
  IF toUpperCase(raw) \in CanonicalBugTypes THEN toUpperCase(raw)
  ELSE IF raw \in DOMAIN BugTypeAliases THEN BugTypeAliases[raw]
  ELSE "LOGIC"

normalizeBugType(raw) ==
  IF toUpperCase(raw) \in CanonicalBugTypes THEN toUpperCase(raw)
  ELSE IF raw \in DOMAIN BugTypeAliases THEN BugTypeAliases[raw]
  ELSE null

BugTypeInputs ==
  CanonicalBugTypes
    \cup {"linting", "syntax", "logic", "type_error", "import", "indentation"}
    \cup DOMAIN BugTypeAliases
    \cup {"security", "performance", "", "bug", "lint_error"}

\* normalizeBugType(raw), and normalizeBugType of its result
ApplyNormalizeBugType ==
  /\ Calling("normalizeBugType")
  /\ LET value == normalizeBugType(applied.args[1])
     IN  Apply([value |-> value, again |-> normalizeBugType(value)])

BugTypeCalls == {Call("normalizeBugType", <<raw>>) : raw \in BugTypeInputs}

\* the score formula --------------------------------------------------------
MaxTime == 301        \* total_time_secs
MaxCommits == 76      \* commits

Max(a, b) == IF a >= b THEN a ELSE b

\* a scorer that still awards the bonus at 300 s
computeScore_BonusAt300(totalTimeSecs, totalCommits) ==
  LET base == 100
      speed_bonus == IF totalTimeSecs <= 300 THEN 10 ELSE 0
      efficiency_penalty == 2 * Max(0, totalCommits - 20)
      total == Max(0, base + speed_bonus - efficiency_penalty)
  IN  [base |-> base, speed_bonus |-> speed_bonus,
       efficiency_penalty |-> efficiency_penalty, total |-> total]

computeScore(totalTimeSecs, totalCommits) ==
  LET base == 100
      speed_bonus == IF totalTimeSecs < 300 THEN 10 ELSE 0
      efficiency_penalty == 2 * Max(0, totalCommits - 20)
      total == Max(0, base + speed_bonus - efficiency_penalty)
  IN  [base |-> base, speed_bonus |-> speed_bonus,
       efficiency_penalty |-> efficiency_penalty, total |-> total]

ApplyComputeScore ==
  /\ Calling("computeScore")
  /\ Apply(computeScore(applied.args[1], applied.args[2]))

ScoreCalls ==
  {Call("computeScore", <<t, c>>) : t \in 0..MaxTime, c \in 0..MaxCommits}

PureInit ==
  /\ runStore = [byFingerprint |-> EmptyMap, byRunId |-> EmptyMap]
  /\ uuidCount = 0
  /\ req = [r \in ReqIds |-> Idle]
  /\ dbRows = {}
  /\ jobs = EmptyMap
  /\ enqueued = EmptyMap
  /\ running = FALSE
  /\ alive = TRUE
  /\ pubsub = <<>>
  /\ published = 0
  /\ lastMsg = Undefined
  /\ calls = <<>>
  /\ faulted = FALSE
  /\ dropped = FALSE
  /\ rejected = FALSE
  /\ roomLog = EmptyMap
  /\ worker = EmptyMap
  /\ outputs = EmptyMap
  /\ http = Undefined
  /\ subscriber = NoSubscriber
  /\ emitted = <<>>
  /\ dash = Undefined
  /\ \/ applied \in FormatBranchNameCalls
     \/ applied \in ProtectedBranchCalls
     \/ applied \in BugTypeCalls
     \/ applied \in ScoreCalls

PureNext ==
  \/ ApplyFormatBranchName
  \/ ApplyAssertNonProtectedTargetBranch
  \/ ApplyNormalizeBugType
  \/ ApplyComputeScore

PureSpec == PureInit /\ [][PureNext]_vars

----------------------------------------------------------------------------
\* Branch names (PureSpec)

\* [A-Z0-9_]
BranchPatternChars ==
  {"A", "B", "C", "D", "E", "F", "G", "H", "I", "J", "K", "L", "M", "N", "O", "P", "Q",
   "R", "S", "T", "U", "V", "W", "X", "Y", "Z", "0", "1", "2", "3", "4", "5", "6", "7",
   "8", "9", "_"}

\* ^[A-Z0-9_]+_AI_Fix$
MatchesBranchPattern(b) ==
  /\ Len(b) > 7
  /\ SubSeq(b, Len(b) - 6, Len(b)) = <<"_", "A", "I", "_", "F", "i", "x">>
  /\ \A i \in 1..(Len(b) - 7) : b[i] \in BranchPatternChars

\* nothing of the name is left once the characters outside [A-Za-z0-9_ ] are
\* stripped
StripsToEmpty(name) == \A i \in 1..Len(name) : name[i] = "*"

\* C21: whenever formatBranchName returns, its result matches
\* ^[A-Z0-9_]+_AI_Fix$; it fails, and Submit answers 400, exactly when the
\* team name or the leader name is empty after stripping.
C21_BranchNameMatchesPattern ==
  Returned("formatBranchName") =>
    LET team == applied.args[1]
        leader == applied.args[2]
        result == applied.result
    IN  /\ result.threw <=> (StripsToEmpty(team) \/ StripsToEmpty(leader))
        /\ ~result.threw => MatchesBranchPattern(result.value)
        /\ result.status # NoResponse => (result.status = 400 <=> result.threw)

\* a team name with lower case, punctuation and a blank was formatted
C21_Witness ==
  /\ Returned("formatBranchName")
  /\ applied.args = << <<"a", "*", " ">>, <<"1", "B">> >>
  /\ applied.result.value = <<"A", "_", "_", "1", "B", "_", "A", "I", "_", "F", "i", "x">>
  /\ applied.result.status = NoResponse

----------------------------------------------------------------------------
\* Protected branches (PureSpec)

UpperOf == [m |-> "M", a |-> "A", i |-> "I", n |-> "N", s |-> "S", t |-> "T",
            e |-> "E", r |-> "R"]

\* name is word written in any mix of cases
SpelledAs(name, word) ==
  /\ Len(name) = Len(word)
  /\ \A k \in 1..Len(word) : name[k] \in {word[k], UpperOf[word[k]]}

\* C22: assertNonProtectedTargetBranch rejects exactly the names that are
\* main or master in any mix of cases, and rejects no output of
\* formatBranchName.
C22_ProtectedExactlyMainMaster ==
  Returned("assertNonProtectedTargetBranch") =>
    LET branch == applied.args[1] IN
    /\ applied.result.threw <=>
         (SpelledAs(branch, <<"m", "a", "i", "n">>)
            \/ SpelledAs(branch, <<"m", "a", "s", "t", "e", "r">>))
    /\ MatchesBranchPattern(branch) => ~applied.result.threw

\* mAiN was rejected
C22_Witness ==
  /\ Returned("assertNonProtectedTargetBranch")
  /\ applied.args = << <<"m", "A", "i", "N">> >>
  /\ applied.result.threw

----------------------------------------------------------------------------
\* Bug types (PureSpec)

\* the documented mapping: the canonical types in either case, the aliases
LintingNames == {"LINTING", "linting", "lint", "style", "format"}
SyntaxNames == {"SYNTAX", "syntax", "parse", "compilation"}
LogicNames == {"LOGIC", "logic", "runtime", "semantic"}
TypeErrorNames == {"TYPE_ERROR", "type_error", "type", "types", "typing"}
ImportNames == {"IMPORT", "import", "module", "dependency"}
IndentationNames == {"INDENTATION", "indentation", "whitespace", "indent"}

Documented(raw) ==
  CASE raw \in LintingNames     -> "LINTING"
    [] raw \in SyntaxNames      -> "SYNTAX"
    [] raw \in LogicNames       -> "LOGIC"
    [] raw \in TypeErrorNames   -> "TYPE_ERROR"
    [] raw \in ImportNames      -> "IMPORT"
    [] raw \in IndentationNames -> "INDENTATION"
    [] OTHER                    -> "(null)"

\* C23: normalizeBugType maps the canonical types, in lower or upper case, and
\* the documented aliases to their canonical type, every other input, the
\* empty string included, to null, and maps its non-null results to themselves.
C23_BugTypeNormalized ==
  Returned("normalizeBugType") =>
    /\ applied.result.value = Documented(applied.args[1])
    /\ applied.result.value # "(null)" => applied.result.again = applied.result.value

\* the empty string was answered null
C23_Witness ==
  /\ Returned("normalizeBugType")
  /\ applied.args = <<"">>
  /\ applied.result.value = "(null)"

----------------------------------------------------------------------------
\* Score (PureSpec)

\* C25: base is 100, speed_bonus 10 below 300 s and 0 from 300 s on,
\* efficiency_penalty 2 for every commit above 20, total their sum floored at
\* 0; total lies between 0 and 110.
C25_ScoreFormula ==
  Returned("computeScore") =>
    LET secs == applied.args[1]
        commits == applied.args[2]
        score == applied.result
        sum == score.base + score.speed_bonus - score.efficiency_penalty
    IN  /\ score.base = 100
        /\ secs < 300 => score.speed_bonus = 10
        /\ secs >= 300 => score.speed_bonus = 0
        /\ commits <= 20 => score.efficiency_penalty = 0
        /\ commits > 20 => score.efficiency_penalty = 2 * (commits - 20)
        /\ sum >= 0 => score.total = sum
        /\ sum < 0 => score.total = 0
        /\ score.total \in 0..110

\* 300 s and 76 commits: no bonus, penalty 112, total floored at 0
C25_Witness ==
  /\ Returned("computeScore")
  /\ applied.args = <<300, 76>>
  /\ applied.result = [base |-> 100, speed_bonus |-> 0, efficiency_penalty |-> 112,
                       total |-> 0]

----------------------------------------------------------------------------
\* The poll loop and the stream of one job attempt (WorkerSpec)

\* the status updates the poll loop of the attempt has published, in order
PollUpdates(w) == SelectSeq(w.published, LAMBDA u : u.current_node = "agent")

\* the polls of the attempt that returned a status, in order
StatusPolls(w) == SelectSeq(w.polled, LAMBDA o : o \in PollStatuses)

C27_StreamStoppedOnEveryExit ==
  \A j \in DOMAIN worker :
    LET w == worker[j] IN
    /\ w.pc = "done" => w.aborted /\ w.awaited /\ w.sse \in {"aborted", "ended"}
    /\ w.sse = "aborted" => w.pc = "done"
    /\ w.aborted => w.pc = "done"
    /\ (w.pc \in {"wait", "failed"} /\ w.attemptsMade > 0) =>
         w.started \in StartOutcomes \ {"accepted"}

\* the budget ran out on failed polls while the stream was open: the read was
\* aborted and the attempt completed
C27_Witness ==
  \E j \in DOMAIN worker :
    /\ worker[j].pc = "done"
    /\ Len(worker[j].polled) = maxPollAttempts
    /\ worker[j].polled[1] = "throw"
    /\ \A i \in 2..maxPollAttempts : worker[j].polled[i] = "non2xx"
    /\ worker[j].sse = "aborted"
    /\ worker[j].awaited

\* C28: if the start call returns non-2xx, or returns accepted = false, the
\* job attempt fails with an error (the job goes back to the queue or, out of
\* attempts, fails), and in that attempt no stream is opened and no status
\* poll is made.
C28_FailedStartOpensNothing ==
  \A j \in DOMAIN worker :
    LET w == worker[j] IN
    w.started \in {"non2xx", "rejected"} =>
      /\ w.pc \in {"wait", "failed"}
      /\ w.opened = 0 /\ w.sse = "none"
      /\ w.polled = <<>> /\ w.attempts = 0
      /\ PollUpdates(w) = <<>>

\* the second attempt of a job was rejected by the agent after the first got a
\* non-2xx answer: the job waits for its third attempt
C28_Witness ==
  \E j \in DOMAIN worker :
    /\ worker[j].started = "rejected"
    /\ worker[j].attemptsMade = 2
    /\ worker[j].pc = "wait"

\* C30: within one job attempt the stream is opened at most once: after it
\* has ended or failed it is never opened again, while polling goes on
\* unaffected: as long as the budget lasts and no terminal status was seen
\* the next poll can be made, whatever has become of the stream.
C30_StreamOpenedAtMostOnce ==
  \A j \in DOMAIN worker :
    LET w == worker[j] IN
    /\ w.opened <= 1
    /\ w.opened = 1 <=> w.sse # "none"
    /\ w.endedAt >= 0 => w.sse = "ended"
    /\ (w.pc = "poll" /\ PollAgain(w)) =>
         \A outcome \in PollOutcomes : ENABLED WorkerPoll(j, outcome)

\* the stream ended before the first poll and the attempt went on polling: it
\* saw 'running' and then 'passed', with the stream still closed
C30_Witness ==
  \E j \in DOMAIN worker :
    /\ worker[j].sse = "ended"
    /\ worker[j].endedAt = 0
    /\ worker[j].opened = 1
    /\ worker[j].polled = <<"running", "passed">>
    /\ Len(PollUpdates(worker[j])) = 2

----------------------------------------------------------------------------
\* Order of registration and external calls in Submit (Spec)

\* the durable-store insert of request r has been started and not yet settled
InsertStarted(r) == req[r].pc = "db"

\* C29: during Submit the run is registered in the Run Store before any
\* optional external call (durable-store insert, enqueue) is started: while
\* the insert of a request is under way its run is in the Run Store.
C29_RegisteredBeforeExternalCalls ==
  \A r \in ReqIds :
    InsertStarted(r) => req[r].response.run_id \in DOMAIN runStore.byRunId

----------------------------------------------------------------------------
\* Eviction on run_complete whatever the emit does (BridgeSpec)

\* the listener that has just returned handled a run_complete event carrying
\* the id of run R, which was active
RunCompleteHandled(R) ==
  /\ IsDefined(lastMsg)
  /\ lastMsg.channel = EventChannel("run_complete")
  /\ lastMsg.raw.kind = "object"
  /\ lastMsg.raw.run_id = R
  /\ R \in DOMAIN lastMsg.before.byRunId

\* C34: a run_complete event carrying run_id R evicts R from the Run Store
\* whether or not the emit to the subscribers succeeds: also when the payload
\* fails schema validation and is dropped, and when the broadcaster throws.
C34_EvictedWhateverTheEmit ==
  \A R \in RunIds :
    RunCompleteHandled(R) => R \notin DOMAIN runStore.byRunId

----------------------------------------------------------------------------
\* Failed polls (WorkerSpec)

FailedPolls == {"throw", "non2xx"}

\* the last poll of the attempt threw, timed out or answered non-2xx
LastPollFailed(w) == w.polled # <<>> /\ w.polled[Len(w.polled)] \in FailedPolls

\* C35: a status poll that throws, times out or returns non-2xx consumes one
\* attempt of the poll budget, does not fail the job attempt and does not end
\* the loop: after it the attempt is still in the loop with no terminal
\* status, the next poll can be made while attempts remain, and the attempt
\* leaves the loop only when the budget is used up.
C35_FailedPollOnlyCostsAnAttempt ==
  \A j \in DOMAIN worker :
    LET w == worker[j] IN
    /\ w.attempts = Len(w.polled)
    /\ LastPollFailed(w) =>
         /\ ~w.terminal
         /\ w.pc \in {"poll", "done"}
         /\ w.pc = "done" => Len(w.polled) = maxPollAttempts
         /\ (w.pc = "poll" /\ w.attempts < maxPollAttempts) =>
              \A outcome \in PollOutcomes : ENABLED WorkerPoll(j, outcome)

\* the first poll answered non-2xx and the loop went on: the second poll
\* returned 'passed'
C35_Witness ==
  \E j \in DOMAIN worker :
    /\ worker[j].polled = <<"non2xx", "passed">>
    /\ worker[j].terminal
    /\ worker[j].attempts = 2

----------------------------------------------------------------------------
\* The two lookups of the Run Store (Spec)

\* C36: the two lookup paths of the Run Store agree in every reachable state:
\* a run is returned by getActiveByRunId(run.run_id) if and only if it is
\* returned by getActiveByFingerprint(run.fingerprint), and both return the
\* same entry with the same status.
C36_LookupsAgree ==
  /\ \A id \in DOMAIN runStore.byRunId :
       LET run == getActiveByRunId(runStore, id) IN
       /\ run.run_id = id
       /\ getActiveByFingerprint(runStore, run.fingerprint) = run
  /\ \A fp \in DOMAIN runStore.byFingerprint :
       LET run == getActiveByFingerprint(runStore, fp) IN
       /\ run.fingerprint = fp
       /\ getActiveByRunId(runStore, run.run_id) = run

\* two runs are active, one still queued and the other running, and a third
\* has been evicted
C36_Witness ==
  /\ Cardinality(DOMAIN runStore.byRunId) = 2
  /\ \E a, b \in DOMAIN runStore.byRunId :
       /\ runStore.byRunId[a].status = "queued"
       /\ runStore.byRunId[b].status = "running"
       /\ getActiveByFingerprint(runStore, runStore.byRunId[b].fingerprint).status = "running"
  /\ uuidCount = 3

----------------------------------------------------------------------------
\* LifecycleSpec: start and close of the bridge, called in any order, with
\* messages published and delivered in between.  Two runs are queued; the
\* bridge has not been started.

MaxStarts == 2     \* connections the bridge makes

StartBridge(connectOk) ==
  /\ IF running THEN TRUE ELSE subscriber.created < MaxStarts
  /\ running' = start(running, subscriber, connectOk).running
  /\ subscriber' = start(running, subscriber, connectOk).subscriber
  /\ NoListener
  /\ UNCHANGED <<runStore, uuidCount, req, dbRows, jobs, enqueued, alive, pubsub, published,
                 faulted, dropped, rejected, roomLog, worker, outputs, http, applied, dash, emitted>>

\* messages on their way to a connection that is closed are gone
CloseBridge ==
  /\ running' = close(running, subscriber).running
  /\ subscriber' = close(running, subscriber).subscriber
  /\ pubsub' = IF subscriber.set THEN <<>> ELSE pubsub
  /\ NoListener
  /\ UNCHANGED <<runStore, uuidCount, req, dbRows, jobs, enqueued, alive, published,
                 faulted, dropped, rejected, roomLog, worker, outputs, http, applied, dash, emitted>>

\* what the worker and the agent publish here: the lifecycle messages and
\* thought events
InboundMessages ==
  LifecycleMessages
    \cup {[channel |-> EventChannel("thought_event"),
           raw |-> EventObject(id, "thought_event")] : id \in QueuedRunIds}

\* redis.publish: the message reaches the connections that are subscribed
PublishInbound(m) ==
  /\ published < MaxPub
  /\ published' = published + 1
  /\ pubsub' = IF subscriber.live > 0 THEN Append(pubsub, m) ELSE pubsub
  /\ NoListener
  /\ UNCHANGED <<runStore, uuidCount, req, dbRows, jobs, enqueued, running, alive,
                 faulted, dropped, rejected, roomLog, worker, outputs, http, applied,
                 subscriber, dash, emitted>>

\* the listener registered by start for the channel of the message
Listener(store, m) ==
  IF m.channel = STATUS_CHANNEL
  THEN handleStatusMessage(store, m.raw, FALSE)
  ELSE handleEventMessage(store, m.channel, m.raw, FALSE)

\* the message is given to the listener of each of n connections in turn
RECURSIVE HandledBy(_, _, _)
HandledBy(n, store, m) ==
  IF n = 0 THEN Result(<<>>, store, <<>>, FALSE)
  ELSE LET first == Listener(store, m)
           rest == HandledBy(n - 1, first.store, m)
       IN  Result(first.calls \o rest.calls, rest.store,
                  first.delivered \o rest.delivered, first.threw \/ rest.threw)

\* a message is delivered: every live connection emits it to its listener
Dispatch(i) ==
  /\ subscriber.live > 0 /\ alive
  /\ Deliverable(i)
  /\ LET result == HandledBy(subscriber.live, runStore, pubsub[i])
     IN  Handled(i, FALSE, result, result, result)
  /\ emitted' = emitted

LifecycleInit ==
  /\ TwoRunsQueued
  /\ running = FALSE
  /\ subscriber = NoSubscriber
  /\ emitted = <<>>
  /\ dash = Undefined
  /\ worker = EmptyMap

LifecycleNext ==
  \/ \E connectOk \in BOOLEAN : StartBridge(connectOk)
  \/ CloseBridge
  \/ \E m \in InboundMessages : PublishInbound(m)
  \/ \E i \in 1..MaxPub : Dispatch(i)

LifecycleSpec == LifecycleInit /\ [][LifecycleNext]_vars

\* the listener that has just returned was given an event, not a status
EventHandled == IsDefined(lastMsg) /\ lastMsg.channel # STATUS_CHANNEL

\* C37: RedisBridge.start is idempotent: a start while the bridge is running
\* makes no second connection and registers no second listener, so there is
\* never more than one connection with listeners and each inbound event is
\* handled exactly once (one broadcaster call); close without a subscriber
\* is a no-op that does not throw.
C37_StartIdempotent ==
  [][ /\ (running /\ subscriber'.last \in {"start", "start again"}
                 /\ subscriber' # subscriber)
          => /\ running'
             /\ subscriber'.created = subscriber.created
             /\ subscriber'.live = subscriber.live
             /\ subscriber'.set = subscriber.set
             /\ ~subscriber'.threw
      /\ subscriber'.live <= 1
      /\ EventHandled' => Len(calls') = 1
      /\ (~subscriber.set /\ subscriber'.last \in {"close", "close, no subscriber"}
                          /\ subscriber' # subscriber)
          => /\ ~subscriber'.threw
             /\ running' = running
             /\ subscriber'.created = subscriber.created
             /\ subscriber'.live = subscriber.live
             /\ ~subscriber'.set
    ]_vars

\* start was called again while the bridge was running, and the event
\* published afterwards led to one broadcaster call
C37_Witness ==
  /\ subscriber.last = "start again"
  /\ subscriber.created = 1
  /\ running
  /\ EventHandled
  /\ lastMsg.channel = EventChannel("thought_event")
  /\ Len(calls) = 1

----------------------------------------------------------------------------
\* ReplaySpec: the query of GET /replay/:runId, applied once to a runs table
\* and a requested run id.  A run id is the sequence of its parts, the prefix
\* "run_" and the characters after it.

MaxSteps == 2      \* trace events recorded per run

\* every variable but applied and dash, as at the launch of the gateway
NothingElse ==
  /\ runStore = [byFingerprint |-> EmptyMap, byRunId |-> EmptyMap]
  /\ uuidCount = 0
  /\ req = [r \in ReqIds |-> Idle]
  /\ dbRows = {}
  /\ jobs = EmptyMap
  /\ enqueued = EmptyMap
  /\ running = FALSE
  /\ alive = TRUE
  /\ pubsub = <<>>
  /\ published = 0
  /\ lastMsg = Undefined
  /\ calls = <<>>
  /\ faulted = FALSE
  /\ dropped = FALSE
  /\ rejected = FALSE
  /\ roomLog = EmptyMap
  /\ worker = EmptyMap
  /\ outputs = EmptyMap
  /\ http = Undefined
  /\ subscriber = NoSubscriber
  /\ emitted = <<>>

\* the run ids of the rows of table runs
TraceRunIds == {<<"run_", "1">>, <<"run_", "2">>, <<"run_", "1", "2">>, <<"run_", "2", "1">>}

\* the rows of execution_traces recorded for a run
TraceRows(id) == {[run_id |-> id, step_index |-> k] : k \in 0..(MaxSteps - 1)}

\* String.prototype.replace(part, ""): the first occurrence is removed
RECURSIVE replace(_, _)
replace(str, part) ==
  IF str = <<>> THEN <<>>
  ELSE IF Head(str) = part THEN Tail(str)
  ELSE <<Head(str)>> \o replace(Tail(str), part)

\* text LIKE '%' || inner || '%'
Like(text, inner) ==
  \E i \in 0..(Len(text) - Len(inner)) : SubSeq(text, i + 1, i + Len(inner)) = inner

\* SELECT run_id FROM runs WHERE run_id::text LIKE $1, with $1 the requested
\* id without "run_" between two % signs: the rows LIMIT 1 picks from
MatchingRuns(runs, runId) == {id \in runs : Like(id, replace(runId, "run_"))}

\* ORDER BY step_index ASC
RECURSIVE OrderByStepIndex(_)
OrderByStepIndex(rows) ==
  IF rows = {} THEN <<>>
  ELSE LET first == CHOOSE r \in rows : \A q \in rows : r.step_index <= q.step_index
       IN  <<first>> \o OrderByStepIndex(rows \ {first})

\* the 200 answer of the route when the subquery has picked run `picked`
\* (None: no row matches and the outer query returns no rows)
replayTrace(runId, picked) ==
  [run_id |-> runId,
   events |-> IF picked = None THEN <<>> ELSE OrderByStepIndex(TraceRows(picked))]

ReplayCalls ==
  {Call("replay", <<runs, runId>>) : runs \in SUBSET TraceRunIds, runId \in TraceRunIds}

\* LIMIT 1 without ORDER BY: any one of the matching rows
ApplyReplay ==
  /\ Calling("replay")
  /\ LET matching == MatchingRuns(applied.args[1], applied.args[2]) IN
     IF matching = {}
     THEN Apply(replayTrace(applied.args[2], None))
     ELSE \E picked \in matching : Apply(replayTrace(applied.args[2], picked))

ReplayInit ==
  /\ NothingElse
  /\ dash = Undefined
  /\ applied \in ReplayCalls

ReplayNext == ApplyReplay

ReplaySpec == ReplayInit /\ [][ReplayNext]_vars

\* C38: the replay trace for run_id R holds only trace events recorded for
\* run R, in ascending step_index order; events of another run whose id
\* merely contains R's id (without the run_ prefix) are never returned.
C38_ReplayOnlyOwnEvents ==
  Returned("replay") =>
    LET events == applied.result.events IN
    /\ \A i \in 1..Len(events) : events[i].run_id = applied.args[2]
    /\ \A i \in 1..(Len(events) - 1) : events[i].step_index <= events[i + 1].step_index

----------------------------------------------------------------------------
\* DashboardSpec: the reducer of the dashboard's run state, given the actions
\* that useSocket and usePolling dispatch, in any order.
\* dash = [state, last, dispatched]: the RunState, the type of the action
\* reduced last, the number of actions reduced

MaxDispatch == 4      \* actions dispatched to the reducer

\* the lengths of thoughts, fixes, ciEvents and telemetry stand for the lists
initialState ==
  [runId |-> None, status |-> "queued", currentNode |-> "", progressPct |-> 0,
   thoughts |-> 0, fixes |-> 0, ciEvents |-> 0, telemetry |-> 0,
   results |-> FALSE, completionEvent |-> FALSE, error |-> FALSE]

\* final_status.toLowerCase()
LowerStatus(final_status) ==
  CASE final_status = "PASSED"      -> "passed"
    [] final_status = "FAILED"      -> "failed"
    [] final_status = "QUARANTINED" -> "quarantined"

FinalStatuses == {"PASSED", "FAILED", "QUARANTINED"}

\* the actions the hooks dispatch for one run
DashActions ==
  {[type |-> "SET_RUN"], [type |-> "ADD_THOUGHT"], [type |-> "ADD_FIX"],
   [type |-> "ADD_CI_EVENT"], [type |-> "ADD_TELEMETRY"], [type |-> "SET_ERROR"],
   [type |-> "RESET"]}
    \cup {[type |-> "SET_STATUS", status |-> st] : st \in {"queued", "running"} \cup terminalStates}
    \cup {[type |-> t, final_status |-> f] : t \in {"SET_RESULTS", "SET_COMPLETE"},
                                           f \in FinalStatuses}

reducer(state, action) ==
  CASE action.type = "SET_RUN" ->
         [initialState EXCEPT !.runId = RunIdOf(1), !.status = "queued"]
    [] action.type = "SET_STATUS" ->
         [state EXCEPT !.status = action.status, !.currentNode = "polled"]
    [] action.type = "ADD_THOUGHT" ->
         [state EXCEPT !.thoughts = @ + 1, !.currentNode = "thought", !.status = "running"]
    [] action.type = "ADD_FIX" -> [state EXCEPT !.fixes = @ + 1]
    [] action.type = "ADD_CI_EVENT" -> [state EXCEPT !.ciEvents = @ + 1]
    [] action.type = "ADD_TELEMETRY" -> [state EXCEPT !.telemetry = @ + 1]
    [] action.type = "SET_RESULTS" ->
         [state EXCEPT !.results = TRUE, !.status = LowerStatus(action.final_status),
                       !.progressPct = 100]
    [] action.type = "SET_COMPLETE" ->
         [state EXCEPT !.completionEvent = TRUE,
                       !.status = LowerStatus(action.final_status), !.progressPct = 100]
    [] action.type = "SET_ERROR" -> [state EXCEPT !.error = TRUE, !.status = "failed"]
    [] action.type = "RESET" -> initialState

\* dispatch(action)
DashDispatch(action) ==
  /\ dash.dispatched < MaxDispatch
  /\ dash' = [state |-> reducer(dash.state, action), last |-> action.type,
              dispatched |-> dash.dispatched + 1]
  /\ UNCHANGED <<runStore, uuidCount, req, dbRows, jobs, enqueued, running, alive, pubsub,
                 published, lastMsg, calls, faulted, dropped, rejected, roomLog, worker,
                 outputs, http, applied, subscriber, emitted>>

DashboardInit ==
  /\ NothingElse
  /\ applied = Undefined
  /\ dash = [state |-> initialState, last |-> "none", dispatched |-> 0]

DashboardNext == \E action \in DashActions : DashDispatch(action)

DashboardSpec == DashboardInit /\ [][DashboardNext]_vars

\* the status is terminal and was made so by SET_COMPLETE or SET_RESULTS
TerminalByCompletion ==
  /\ dash.state.status \in terminalStates
  /\ dash.last \in {"SET_COMPLETE", "SET_RESULTS"} \/ dash.state.completionEvent
                                                   \/ dash.state.results

\* C39: once the status of the dashboard's run state has become terminal
\* through SET_COMPLETE or SET_RESULTS, no later ADD_THOUGHT, ADD_FIX,
\* ADD_CI_EVENT, ADD_TELEMETRY or SET_STATUS action changes it back to queued
\* or running.
C39_TerminalStaysTerminal ==
  [][ (/\ TerminalByCompletion
       /\ dash'.last \in {"ADD_THOUGHT", "ADD_FIX", "ADD_CI_EVENT", "ADD_TELEMETRY",
                          "SET_STATUS"})
      => dash'.state.status \notin {"queued", "running"} ]_vars

----------------------------------------------------------------------------
\* StreamSpec: the frame decoder of bridgeSSE, applied once to the content of
\* a stream and one way of cutting it into read chunks.  The content is a
\* sequence of pieces of text: the prefixes "event: " and "data: ", the
\* character "x" and the line feed; it is made of whole lines.

MaxLines == 3      \* lines in a stream

LF == "\n"

\* an event line, a data line, a line that is neither, an event line without
\* a name
StreamLines == {<<"event: ", "x", LF>>, <<"data: ", "x", LF>>, <<"x", LF>>, <<"event: ", LF>>}

RECURSIVE StreamsOfLen(_)
StreamsOfLen(n) ==
  IF n = 0 THEN {<<>>}
  ELSE {c \o line : c \in StreamsOfLen(n - 1), line \in StreamLines}

StreamContents == UNION {StreamsOfLen(n) : n \in 0..MaxLines}

\* the chunks reader.read() returns when the content is cut after the
\* positions in cuts
RECURSIVE ChunksFrom(_, _, _)
ChunksFrom(content, cuts, from) ==
  IF from > Len(content) THEN <<>>
  ELSE LET later == {c \in cuts : c >= from}
           to == IF later = {} THEN Len(content)
                 ELSE CHOOSE c \in later : \A d \in later : c <= d
       IN  <<SubSeq(content, from, to)>> \o ChunksFrom(content, cuts, to + 1)

Chunkings(content) ==
  {ChunksFrom(content, cuts, 1) : cuts \in SUBSET (1..(Len(content) - 1))}

\* buffer.split("\n"): the lines, the last of which is the text after the
\* last line feed
RECURSIVE split(_, _)
split(text, line) ==
  IF text = <<>> THEN <<line>>
  ELSE IF Head(text) = LF THEN <<line>> \o split(Tail(text), <<>>)
  ELSE split(Tail(text), Append(line, Head(text)))

\* line.startsWith(prefix)
startsWith(line, prefix) == line # <<>> /\ Head(line) = prefix

\* for (const line of lines): an event line sets currentEvent, a data line
\* with a currentEvent is published on run:event:<currentEvent>
RECURSIVE forLines(_, _, _)
forLines(lines, currentEvent, publishes) ==
  IF lines = <<>> THEN publishes
  ELSE LET line == Head(lines) IN
       IF startsWith(line, "event: ")
       THEN forLines(Tail(lines), Tail(line), publishes)
       ELSE IF startsWith(line, "data: ") /\ currentEvent # <<>>
       THEN forLines(Tail(lines), <<>>,
                     Append(publishes, [event |-> currentEvent, data |-> Tail(line)]))
       ELSE forLines(Tail(lines), currentEvent, publishes)

\* one turn of the read loop: the chunk is added to the buffer, the complete
\* lines are taken out of it and gone through with a new currentEvent
readChunk(st, chunk) ==
  LET lines == split(st.buffer \o chunk, <<>>) IN
  [buffer |-> lines[Len(lines)],
   publishes |-> forLines(SubSeq(lines, 1, Len(lines) - 1), <<>>, st.publishes)]

\* bridgeSSE on a stream that arrives in these chunks: what it publishes
RECURSIVE readAll(_, _)
readAll(st, chunks) ==
  IF chunks = <<>> THEN st.publishes
  ELSE readAll(readChunk(st, Head(chunks)), Tail(chunks))

bridgeSSE(chunks) == readAll([buffer |-> <<>>, publishes |-> <<>>], chunks)

BridgeSSECalls ==
  UNION {{Call("bridgeSSE", <<content, chunks>>) : chunks \in Chunkings(content)} :
            content \in StreamContents}

ApplyBridgeSSE ==
  /\ Calling("bridgeSSE")
  /\ Apply(bridgeSSE(applied.args[2]))

StreamInit ==
  /\ NothingElse
  /\ dash = Undefined
  /\ applied \in BridgeSSECalls

StreamNext == ApplyBridgeSSE

StreamSpec == StreamInit /\ [][StreamNext]_vars

\* C32: the sequence of (event type, payload) pairs that bridgeSSE publishes
\* for a stream content is the same for every way the stream is cut into
\* read chunks: it is what is published when the content arrives as one
\* chunk; an 'event:' line and its 'data:' line that arrive in different
\* chunks still produce one publish.
C32_PublishesIndependentOfChunks ==
  Returned("bridgeSSE") =>
    applied.result = bridgeSSE(<<applied.args[1]>>)

----------------------------------------------------------------------------
\* OrderSpec: WorkerSpec with the frames of the agent's stream, which
\* bridgeSSE publishes one after the other, and the bridge's event listener,
\* which forwards them to the room.  A frame carries its place in the stream.

MaxFrames == 3      \* frames the agent sends on one stream

FrameTypes == {"thought_event", "fix_applied"}

Frame(rid, t, seq) == [kind |-> "object", run_id |-> rid, shape |-> t, seq |-> seq]

\* The agent sends its next frame, of type t, while the stream is read.
\* cut: the event line and the data line of the frame arrive in different
\* chunks, and the frame is not published.
StreamFrame(j, t, cut) ==
  /\ j \in DOMAIN worker
  /\ worker[j].pc = "poll"
  /\ worker[j].sse = "open"
  /\ Len(worker[j].stream) < MaxFrames
  /\ LET seq == Len(worker[j].stream) + 1 IN
     /\ worker' = [worker EXCEPT ![j].stream = Append(@, [event |-> t, seq |-> seq,
                                                          cut |-> cut])]
     /\ pubsub' = IF cut THEN pubsub
                  ELSE Published(pubsub, [channel |-> EventChannel(t),
                                          raw |-> Frame(jobs[j].run_id, t, seq)])
  /\ NoListener
  /\ WorkerFrame

\* subscriber.on("pmessage", ...), with the payload that reaches the room
Forward(i, fault) ==
  /\ running /\ alive
  /\ Deliverable(i)
  /\ pubsub[i].channel # STATUS_CHANNEL
  /\ LET result == handleEventMessage(runStore, pubsub[i].channel, pubsub[i].raw, fault) IN
     /\ Handled(i, fault,
                handleEventBody(runStore, pubsub[i].channel, pubsub[i].raw, fault),
                handleEventBody(runStore, pubsub[i].channel, pubsub[i].raw, FALSE),
                result)
     /\ emitted' = IF result.delivered = <<>> THEN emitted
                   ELSE Append(emitted, [room |-> result.delivered[1].room,
                                         event |-> result.delivered[1].event,
                                         payload |-> JSONparse(pubsub[i].raw).value])

\* the attempts looked at: the agent accepts the run, and its polls answer
OrderNext ==
  \/ \E j \in DOMAIN jobs : WorkerBegin(j)
  \/ \E j \in DOMAIN jobs : WorkerStart(j, "accepted")
  \/ \E j \in DOMAIN jobs, outcome \in {"running", "passed"} : WorkerPoll(j, outcome)
  \/ \E j \in DOMAIN jobs : StreamEnds(j)
  \/ \E j \in DOMAIN jobs : WorkerFinish(j)
  \/ \E i \in 1..MaxPub : OnMessage(i, FALSE)
  \/ \E j \in DOMAIN jobs, t \in FrameTypes, cut \in BOOLEAN : StreamFrame(j, t, cut)
  \/ \E i \in 1..(MaxFrames + maxPollAttempts + 2), fault \in BOOLEAN : Forward(i, fault)

OrderSpec == WorkerInit /\ [][OrderNext]_vars

\* the places in the stream of the events of type t emitted to the room of
\* run R, in the order of their emits
EmittedSeqs(R, t) ==
  LET mine == SelectSeq(emitted, LAMBDA e : e.room = Room(R) /\ e.event = t)
  IN  [i \in 1..Len(mine) |-> mine[i].payload.seq]

\* C31: for one run and one event type, events are emitted to the run's room
\* in the order in which their frames appeared in the agent's stream: every
\* emitted event is a frame of that type of the run's stream, and of two
\* emitted events the one emitted first appeared first.
C31_EmittedInStreamOrder ==
  \A j \in DOMAIN worker : \A t \in FrameTypes :
    LET seqs == EmittedSeqs(jobs[j].run_id, t) IN
    /\ \A i \in 1..Len(seqs) :
         /\ seqs[i] \in 1..Len(worker[j].stream)
         /\ worker[j].stream[seqs[i]].event = t
    /\ \A i \in 1..(Len(seqs) - 1) : seqs[i] < seqs[i + 1]

\* three thought events of one stream were published and forwarded, the
\* first and the third reached the room (the second was lost when the
\* broadcaster threw)
C31_Witness ==
  \E j \in DOMAIN worker :
    /\ Len(worker[j].stream) = 3
    /\ \A k \in 1..3 : worker[j].stream[k].event = "thought_event"
    /\ EmittedSeqs(jobs[j].run_id, "thought_event") = <<1, 3>>
    /\ faulted

----------------------------------------------------------------------------
\* LiveSpec: WorkerSpec under fairness.  The gateway has answered 202 for
\* SubmissionA and registered the run; the enqueue either added the job or
\* failed (the catch of the handler logs and goes on).  The queue hands every
\* waiting job to the worker, an attempt goes on to its next step, and a
\* published status is delivered to the bridge's listener.  What the agent
\* answers, and whether its stream ends, is not constrained.

EnqueueFailedInit ==
  /\ runStore = registerQueuedRun([byFingerprint |-> EmptyMap, byRunId |-> EmptyMap],
                                  AcceptedRun(SubmissionA, 1)).store
  /\ uuidCount = 1
  /\ req = [r \in ReqIds |-> IF r = 1 THEN Accepted(SubmissionA, 1) ELSE Idle]
  /\ dbRows = {RunIdOf(1)}
  /\ jobs = EmptyMap
  /\ enqueued = Counted(EmptyMap, RunIdOf(1))
  /\ running = TRUE
  /\ alive = TRUE
  /\ pubsub = <<>>
  /\ published = 0
  /\ lastMsg = Undefined
  /\ calls = <<>>
  /\ faulted = FALSE
  /\ dropped = FALSE
  /\ rejected = FALSE
  /\ roomLog = EmptyMap
  /\ outputs = EmptyMap
  /\ http = Undefined
  /\ applied = Undefined
  /\ subscriber = Started
  /\ emitted = <<>>
  /\ dash = Undefined
  /\ worker = EmptyMap

LiveInit == WorkerInit \/ EnqueueFailedInit

\* the listener handles what is delivered without a fault of its own
LiveNext ==
  \/ \E j \in DOMAIN jobs : WorkerBegin(j)
  \/ \E j \in DOMAIN jobs, outcome \in StartOutcomes : WorkerStart(j, outcome)
  \/ \E j \in DOMAIN jobs, outcome \in PollOutcomes : WorkerPoll(j, outcome)
  \/ \E j \in DOMAIN jobs : StreamEnds(j)
  \/ \E j \in DOMAIN jobs : WorkerFinish(j)
  \/ \E i \in 1..MaxPub : OnMessage(i, FALSE)

Fairness ==
  /\ \A j \in RunIds : WF_vars(WorkerBegin(j))
  /\ \A j \in RunIds : WF_vars(\E outcome \in StartOutcomes : WorkerStart(j, outcome))
  /\ \A j \in RunIds : WF_vars(\E outcome \in PollOutcomes : WorkerPoll(j, outcome))
  /\ \A j \in RunIds : WF_vars(WorkerFinish(j))
  /\ WF_vars(\E i \in 1..MaxPub : OnMessage(i, FALSE))

LiveSpec == LiveInit /\ [][LiveNext]_vars /\ Fairness

\* C33: under fairness of the queue, the worker and pub/sub delivery, every
\* run registered in the Run Store is eventually evicted, also when the
\* enqueue failed at submission and when every attempt of the job failed at
\* the start call.
C33_EveryRunEventuallyEvicted ==
  \A R \in RunIds : (R \in ActiveIds) ~> Evicted(R)


============================================================================
